---- MODULE Spec2Model ----
(***************************************************************************)
(* State machine of the card-portfolio backend actor                       *)
(* (src/src/backend/main.mo): the per-user card lists, the per-user change *)
(* history, the backfill markers and the card id counter, with one action  *)
(* per update method of the actor.                                         *)
(*                                                                         *)
(* Conventions                                                             *)
(*  - a Motoko Map is a function whose DOMAIN is the set of keys present,  *)
(*    so Map.get returning null is "key not in DOMAIN";                    *)
(*  - an option value ?v is the one-element sequence <<v>>, null is <<>>;  *)
(*  - the Float amounts stored in a card are whole numbers; the arithmetic  *)
(*    of the aggregates is binary floating point, rounding every result to *)
(*    MantissaBits significant bits (nearest, ties to even);               *)
(*  - a text built with # is the sequence of its parts, numbers being      *)
(*    converted by NatToText;                                              *)
(*  - Runtime.trap rejects the message and rolls the actor state back, so  *)
(*    a handler is an operator from the state before the call to the       *)
(*    state after it plus the result ("ok" or the trap message).           *)
(***************************************************************************)
EXTENDS Integers, Sequences, FiniteSets

\* ---------------------------------------------------------------- bounds
\* Card ids the model allocates: nextCardId never exceeds MaxCards.
MaxCards == 2
\* Total number of history entries over all users.
MaxHist == 3
\* Largest value of the clock read by Time.now().
MaxTime == 1

\* The partition specification: history entries over all users.
MaxPartitionHist == 2
\* The portfolio specification: card ids allocated and history entries.
MaxPortfolioCards == 3
MaxPortfolioHist == 5
\* Significant bits of a Float, and the number of binary places behind the
\* point of the smallest Float step.
MantissaBits == 10
FractionBits == 13

\* ------------------------------------------------------------ principals
\* Principals holding the #user permission.
Users == {"alice", "bob"}
\* All callers: the users and one principal without the permission.
Principals == Users \cup {"mallory"}

hasPermission(caller) == caller \in Users

\* ---------------------------------------------------------------- inputs
PaymentMethod == {"cash", "eth", "essence", "trade"}
TransactionType == {"forSale", "sold", "tradedGiven", "tradedReceived"}
ChangeAction == {"addCard", "editCard", "deleteCard", "updateSalePrice",
                 "markSold", "trade", "revertTrade"}

\* Attribute sets passed to addCard / updateCard.  name stands for all the
\* descriptive texts (rarity, country, league, club, version, season, notes,
\* age, position, purchaseDate), which the code copies exactly like name.
CardAttrs ==
  { [name |-> "Messi", purchasePrice |-> 100, discountPercent |-> 20,
     paymentMethod |-> "cash"],
    [name |-> "Pele", purchasePrice |-> 999, discountPercent |-> 0,
     paymentMethod |-> "essence"] }
\* The optional image of addCard, and the (attributes, image) pairs the
\* AddCard action draws from.
Images == {<<>>, <<"blob">>}
AddCardInputs ==
  {in \in CardAttrs \X Images :
     (in[2] = <<>>) = (in[1].paymentMethod = "essence")}
\* Profiles passed to saveCallerUserProfile.
Profiles == { [name |-> "Al", profileImage |-> <<>>],
              [name |-> "Bo", profileImage |-> <<"blob">>] }
\* Sale prices and sale dates passed to updateSalePrice / markCardAsSold.
SalePrices == {150}
SaleDates == {7}
\* Card ids a caller may name: every id the model can allocate.
CardIds == 0 .. (MaxCards - 1)
\* Id arrays passed to recordTradeTransaction / revertTradeTransaction.
IdLists == {<<>>} \cup {<<i>> : i \in CardIds}
             \cup {p \in CardIds \X CardIds : p[1] < p[2]}
ShortIdLists == {<<>>} \cup {<<i>> : i \in CardIds}

\* --------------------------------------------------------------- helpers
Some(v) == <<v>>
None == <<>>

Put(m, k, v) == [x \in (DOMAIN m) \cup {k} |-> IF x = k THEN v ELSE m[x]]

Digits == <<"0", "1", "2", "3", "4", "5", "6", "7", "8", "9">>
RECURSIVE NatToText(_)
NatToText(n) ==
  IF n < 10 THEN <<Digits[n + 1]>>
  ELSE NatToText(n \div 10) \o <<Digits[(n % 10) + 1]>>

RECURSIVE MapSeq(_, _)
MapSeq(F(_), s) == IF s = <<>> THEN <<>> ELSE <<F(Head(s))>> \o MapSeq(F, Tail(s))

RECURSIVE FilterSeq(_, _)
FilterSeq(P(_), s) ==
  IF s = <<>> THEN <<>>
  ELSE (IF P(Head(s)) THEN <<Head(s)>> ELSE <<>>) \o FilterSeq(P, Tail(s))

Range(s) == {s[i] : i \in DOMAIN s}

RECURSIVE FoldLeft(_, _, _)
FoldLeft(F(_, _), acc, s) ==
  IF s = <<>> THEN acc ELSE FoldLeft(F, F(acc, Head(s)), Tail(s))

\* ----------------------------------------------------------------- Float
\* A Float is the integer number of steps of 2^-FractionBits it is worth, so
\* equal Floats are equal integers.  Every operation computes the exact
\* result and rounds it to MantissaBits significant bits.
RECURSIVE Pow2(_)
Pow2(k) == IF k = 0 THEN 1 ELSE 2 * Pow2(k - 1)

RECURSIVE BitLength(_)
BitLength(n) == IF n = 0 THEN 0 ELSE 1 + BitLength(n \div 2)

RECURSIVE TrailingZeros(_)
TrailingZeros(n) == IF n % 2 = 1 THEN 0 ELSE 1 + TrailingZeros(n \div 2)

Max3(a, b, c) ==
  IF a >= b /\ a >= c THEN a ELSE IF b >= c THEN b ELSE c

\* m without its k lowest bits, rounded to nearest, ties to even; sticky
\* says the exact value lies above m by less than one unit of m.
RoundDrop(m, k, sticky) ==
  IF k = 0 THEN m
  ELSE LET q == m \div Pow2(k)
           r == m % Pow2(k)
           half == Pow2(k - 1)
           up == r > half \/ (r = half /\ (sticky \/ q % 2 = 1))
       IN  IF up THEN q + 1 ELSE q

\* The Float nearest to m * 2^shift steps (m >= 0).
RoundShift(m, shift, sticky) ==
  LET k == Max3(BitLength(m) - MantissaBits, 0 - shift, 0)
  IN  RoundDrop(m, k, sticky) * Pow2(k + shift)

RoundSigned(x) ==
  IF x < 0 THEN 0 - RoundShift(0 - x, 0, FALSE) ELSE RoundShift(x, 0, FALSE)

\* The Float of a whole number.
FloatOf(n) == RoundShift(n, FractionBits, FALSE)

FloatAdd(a, b) == RoundSigned(a + b)
FloatSub(a, b) == RoundSigned(a - b)

\* a * b for a, b >= 0: the product of the odd parts, shifted.
FloatMul(a, b) ==
  IF a = 0 \/ b = 0 THEN 0
  ELSE LET ka == TrailingZeros(a)
           kb == TrailingZeros(b)
       IN  RoundShift((a \div Pow2(ka)) * (b \div Pow2(kb)),
                      ka + kb - FractionBits, FALSE)

\* a / b for a >= 0, b > 0: the quotient of the odd parts to MantissaBits + 1
\* bits at least, the remainder kept as the sticky bit.
FloatDiv(a, b) ==
  IF a = 0 THEN 0
  ELSE LET ka == TrailingZeros(a)
           kb == TrailingZeros(b)
           ma == a \div Pow2(ka)
           mb == b \div Pow2(kb)
           j == MantissaBits - BitLength(ma)
           num == ma * Pow2(j + MantissaBits + 1)
       IN  RoundShift(num \div mb,
                      ka - j - (MantissaBits + 1) - kb + FractionBits,
                      num % mb # 0)

\* ----------------------------------------------------------------- state
VARIABLES
  cards,           \* Map Principal -> List Card
  changeHistory,   \* Map Principal -> List ChangeHistoryEntry
  userProfiles,    \* Map Principal -> UserProfile
  backfillMarker,  \* Map Principal -> Bool
  nextCardId,      \* the id counter
  now,             \* Time.now() of the latest accepted update message
  last,            \* the latest accepted update message: method, caller,
                   \* arguments and returned id
  flow             \* the trade flow of the sell-or-trade dialog: its position,
                   \* the given card and the ids of the cards created so far

vars == <<cards, changeHistory, userProfiles, backfillMarker, nextCardId, now, last,
          flow>>

\* The actor's stable state as one record.
State == [cards |-> cards, changeHistory |-> changeHistory,
          userProfiles |-> userProfiles,
          backfillMarker |-> backfillMarker, nextCardId |-> nextCardId]

EmptyMap == [p \in {} |-> <<>>]

NoCall == [op |-> "init", caller |-> "none", cardId |-> None, attrs |-> None,
           image |-> None, price |-> None, date |-> None,
           given |-> <<>>, received |-> <<>>, ret |-> None]

\* The dialog before handleTrade runs.
NoFlow == [pc |-> "idle", caller |-> "none", card |-> None, toAdd |-> 0,
           newCardIds |-> <<>>]

Init ==
  /\ flow = NoFlow
  /\ cards = EmptyMap
  /\ changeHistory = EmptyMap
  /\ userProfiles = EmptyMap
  /\ backfillMarker = EmptyMap
  /\ nextCardId = 0
  /\ now = 0
  /\ last = NoCall

\* ------------------------------------------------------- handler results
\* Runtime.trap: the call is rejected with msg and the state is the one
\* before the call.
Trap(s, msg) == [st |-> s, result |-> msg, ret |-> None]
Ok(s2, ret) == [st |-> s2, result |-> "ok", ret |-> ret]

\* ------------------------------------------------------ internal helpers
\* Variant of getNextCardIdInternal: the counter is read but not raised.
getNextCardIdInternalStuck(s) ==
  [id |-> s.nextCardId, st |-> s]

getNextCardIdInternal(s) ==
  [id |-> s.nextCardId, st |-> [s EXCEPT !.nextCardId = @ + 1]]

\* Variant of logChange: the new entry is put in front of the stored ones.
logChangeNewestFirst(s, user, t, action, cardIds, summary) ==
  LET entry == [timestamp |-> t, action |-> action, cardIds |-> cardIds,
                summary |-> summary]
      currentHistory == IF user \in DOMAIN s.changeHistory
                        THEN s.changeHistory[user] ELSE <<>>
  IN  [s EXCEPT !.changeHistory = Put(@, user, <<entry>> \o currentHistory)]

logChange(s, user, t, action, cardIds, summary) ==
  LET entry == [timestamp |-> t, action |-> action, cardIds |-> cardIds,
                summary |-> summary]
      currentHistory == IF user \in DOMAIN s.changeHistory
                        THEN s.changeHistory[user] ELSE <<>>
  IN  [s EXCEPT !.changeHistory = Put(@, user, Append(currentHistory, entry))]

verifyCardOwnership(s, caller, cardId) ==
  /\ caller \in DOMAIN s.cards
  /\ \E i \in DOMAIN s.cards[caller] : s.cards[caller][i].id = cardId

getAllCardsForUserInternal(s, user) ==
  IF user \in DOMAIN s.cards THEN s.cards[user] ELSE <<>>

\* The matching cards of a list, in list order.
Matching(userCards, cardId) ==
  LET IsIt(card) == card.id = cardId IN FilterSeq(IsIt, userCards)

\* ---------------------------------------------------------------- addCard
NewCard(cardId, caller, attrs, image) ==
  [id |-> cardId,
   name |-> attrs.name,
   purchasePrice |-> attrs.purchasePrice,
   discountPercent |-> attrs.discountPercent,
   paymentMethod |-> attrs.paymentMethod,
   salePrice |-> None,
   owner |-> caller,
   transactionType |-> "forSale",
   tradeReference |-> None,
   saleDate |-> None,
   image |-> image]

\* Variant of addCard: the new card is stored in a fresh list instead of
\* being added to the caller's current list.
addCardFreshList(s, caller, t, attrs, image) ==
  IF ~hasPermission(caller)
  THEN Trap(s, "Unauthorized: Only users can add cards")
  ELSE
    LET a == getNextCardIdInternal(s)
        newCard == NewCard(a.id, caller, attrs, image)
        s2 == [a.st EXCEPT !.cards = Put(@, caller, <<newCard>>)]
    IN  Ok(logChange(s2, caller, t, "addCard", <<a.id>>,
                     <<"Added new card: ", attrs.name>>),
           Some(a.id))

addCard(s, caller, t, attrs, image) ==
  IF ~hasPermission(caller)
  THEN Trap(s, "Unauthorized: Only users can add cards")
  ELSE
    LET a == getNextCardIdInternal(s)
        newCard == NewCard(a.id, caller, attrs, image)
        currentCards == IF caller \in DOMAIN a.st.cards
                        THEN a.st.cards[caller] ELSE <<>>
        s2 == [a.st EXCEPT !.cards = Put(@, caller, Append(currentCards, newCard))]
    IN  Ok(logChange(s2, caller, t, "addCard", <<a.id>>,
                     <<"Added new card: ", attrs.name>>),
           Some(a.id))

\* -------------------------------------------------------- updateSalePrice
WithSalePrice(card, cardId, newSalePrice) ==
  IF card.id = cardId THEN [card EXCEPT !.salePrice = Some(newSalePrice)]
  ELSE card

\* Variant of updateSalePrice: the change is logged as an editCard entry.
updateSalePriceLogsEdit(s, caller, t, cardId, newSalePrice) ==
  IF ~hasPermission(caller)
  THEN Trap(s, "Unauthorized: Only users can update cards")
  ELSE IF ~verifyCardOwnership(s, caller, cardId)
  THEN Trap(s, "Unauthorized: Card does not belong to caller")
  ELSE
    LET userCards == s.cards[caller]
        Upd(card) == WithSalePrice(card, cardId, newSalePrice)
        s2 == [s EXCEPT !.cards = Put(@, caller, MapSeq(Upd, userCards))]
    IN  Ok(logChange(s2, caller, t, "editCard", <<cardId>>,
                     <<"Set sale price for card ">> \o NatToText(cardId)), None)

updateSalePrice(s, caller, t, cardId, newSalePrice) ==
  IF ~hasPermission(caller)
  THEN Trap(s, "Unauthorized: Only users can update cards")
  ELSE IF ~verifyCardOwnership(s, caller, cardId)
  THEN Trap(s, "Unauthorized: Card does not belong to caller")
  ELSE IF caller \notin DOMAIN s.cards
  THEN Trap(s, "Card not found")
  ELSE
    LET userCards == s.cards[caller]
        hits == Matching(userCards, cardId)
        oldSalePrice == IF hits = <<>> THEN None ELSE hits[Len(hits)].salePrice
        Upd(card) == WithSalePrice(card, cardId, newSalePrice)
        s2 == [s EXCEPT !.cards = Put(@, caller, MapSeq(Upd, userCards))]
        summary ==
          IF oldSalePrice = None
          THEN <<"Set sale price for card ">> \o NatToText(cardId)
                 \o <<" to ">> \o NatToText(newSalePrice)
          ELSE <<"Updated sale price for card ">> \o NatToText(cardId)
                 \o <<" from ">> \o NatToText(oldSalePrice[1])
                 \o <<" to ">> \o NatToText(newSalePrice)
    IN  Ok(logChange(s2, caller, t, "updateSalePrice", <<cardId>>, summary), None)

\* ------------------------------------------------------------- updateCard
WithAttrs(card, cardId, attrs) ==
  IF card.id = cardId
  THEN [card EXCEPT !.name = attrs.name,
                    !.purchasePrice = attrs.purchasePrice,
                    !.discountPercent = attrs.discountPercent,
                    !.paymentMethod = attrs.paymentMethod]
  ELSE card

\* Variant of updateCard: the card is stored anew, forSale and without sale
\* price, sale date and trade reference.
updateCardResetsState(s, caller, t, cardId, attrs) ==
  IF ~hasPermission(caller)
  THEN Trap(s, "Unauthorized: Only users can update cards")
  ELSE IF ~verifyCardOwnership(s, caller, cardId)
  THEN Trap(s, "Unauthorized: Card does not belong to caller")
  ELSE
    LET userCards == s.cards[caller]
        Upd(card) == IF card.id = cardId
                     THEN NewCard(cardId, caller, attrs, card.image)
                     ELSE card
        s2 == [s EXCEPT !.cards = Put(@, caller, MapSeq(Upd, userCards))]
    IN  Ok(logChange(s2, caller, t, "editCard", <<cardId>>,
                     <<"Edited card #">> \o NatToText(cardId)), None)

updateCard(s, caller, t, cardId, attrs) ==
  IF ~hasPermission(caller)
  THEN Trap(s, "Unauthorized: Only users can update cards")
  ELSE IF ~verifyCardOwnership(s, caller, cardId)
  THEN Trap(s, "Unauthorized: Card does not belong to caller")
  ELSE IF caller \notin DOMAIN s.cards
  THEN Trap(s, "Card not found")
  ELSE
    LET userCards == s.cards[caller]
        hits == Matching(userCards, cardId)
        oldName == IF hits = <<>> THEN "" ELSE hits[Len(hits)].name
        Upd(card) == WithAttrs(card, cardId, attrs)
        s2 == [s EXCEPT !.cards = Put(@, caller, MapSeq(Upd, userCards))]
    IN  Ok(logChange(s2, caller, t, "editCard", <<cardId>>,
                     <<"Edited card #">> \o NatToText(cardId)
                       \o <<": ", oldName, " -> ", attrs.name>>),
           None)

\* ------------------------------------------------------------- deleteCard
\* Variant of deleteCard: the entry is logged before the ownership check and
\* the failed check reports the error without undoing the log.
deleteCardLogsFirst(s, caller, t, cardId) ==
  IF ~hasPermission(caller)
  THEN Trap(s, "Unauthorized: Only users can delete cards")
  ELSE
    LET logged == logChange(s, caller, t, "deleteCard", <<cardId>>,
                            <<"Deleted card ">> \o NatToText(cardId))
        userCards == getAllCardsForUserInternal(s, caller)
        Keep(card) == ~(card.id = cardId)
    IN  IF ~verifyCardOwnership(s, caller, cardId)
        THEN Trap(logged, "Unauthorized: Card does not belong to caller")
        ELSE Ok([logged EXCEPT
                   !.cards = Put(@, caller, FilterSeq(Keep, userCards))], None)

\* Variant of deleteCard: a sold card is kept in the collection.
deleteCardKeepsSold(s, caller, t, cardId) ==
  IF ~hasPermission(caller)
  THEN Trap(s, "Unauthorized: Only users can delete cards")
  ELSE IF ~verifyCardOwnership(s, caller, cardId)
  THEN Trap(s, "Unauthorized: Card does not belong to caller")
  ELSE
    LET userCards == s.cards[caller]
        Keep(card) == ~(card.id = cardId) \/ card.transactionType = "sold"
        s2 == [s EXCEPT !.cards = Put(@, caller, FilterSeq(Keep, userCards))]
    IN  Ok(logChange(s2, caller, t, "deleteCard", <<cardId>>,
                     <<"Deleted card ">> \o NatToText(cardId)), None)

deleteCard(s, caller, t, cardId) ==
  IF ~hasPermission(caller)
  THEN Trap(s, "Unauthorized: Only users can delete cards")
  ELSE IF ~verifyCardOwnership(s, caller, cardId)
  THEN Trap(s, "Unauthorized: Card does not belong to caller")
  ELSE IF caller \notin DOMAIN s.cards
  THEN Trap(s, "Card not found")
  ELSE
    LET userCards == s.cards[caller]
        hits == Matching(userCards, cardId)
        deletedCardName == IF hits = <<>> THEN "" ELSE hits[Len(hits)].name
        Keep(card) == ~(card.id = cardId)
        s2 == [s EXCEPT !.cards = Put(@, caller, FilterSeq(Keep, userCards))]
        summary ==
          IF deletedCardName # ""
          THEN <<"Deleted card #">> \o NatToText(cardId)
                 \o <<" (", deletedCardName, ")">>
          ELSE <<"Deleted card ">> \o NatToText(cardId)
    IN  Ok(logChange(s2, caller, t, "deleteCard", <<cardId>>, summary), None)

\* ---------------------------------------------------------- markCardAsSold
SoldCard(card, cardId, salePrice, saleDate) ==
  IF card.id = cardId
  THEN [card EXCEPT !.transactionType = "sold",
                    !.salePrice = Some(salePrice),
                    !.saleDate = Some(saleDate)]
  ELSE card

markCardAsSold(s, caller, t, cardId, salePrice, saleDate) ==
  IF ~hasPermission(caller)
  THEN Trap(s, "Unauthorized: Only users can sell cards")
  ELSE IF ~verifyCardOwnership(s, caller, cardId)
  THEN Trap(s, "Unauthorized: Card does not belong to caller")
  ELSE IF caller \notin DOMAIN s.cards
  THEN Trap(s, "Cards not found")
  ELSE
    LET userCards == s.cards[caller]
        found == Matching(userCards, cardId) # <<>>
        Upd(card) == SoldCard(card, cardId, salePrice, saleDate)
        s2 == [s EXCEPT !.cards = Put(@, caller, MapSeq(Upd, userCards))]
    IN  IF ~found THEN Trap(s, "CardId not found")
        ELSE Ok(logChange(s2, caller, t, "markSold", <<cardId>>,
                          <<"Card ">> \o NatToText(cardId)
                            \o <<" marked as sold for ">> \o NatToText(salePrice)
                            \o <<" at ">> \o NatToText(saleDate)),
                None)

\* -------------------------------------------------- recordTradeTransaction
\* The map body: a forSale card whose id is among the given ids becomes
\* tradedGiven and carries the trade reference.
TradedGivenCard(card, existingGivenIds, receivedCardIds) ==
  IF card.transactionType = "forSale"
  THEN IF \E i \in DOMAIN existingGivenIds : existingGivenIds[i] = card.id
       THEN [card EXCEPT
               !.transactionType = "tradedGiven",
               !.tradeReference = Some([givenCards |-> existingGivenIds,
                                        receivedCards |-> receivedCardIds])]
       ELSE card
  ELSE card

\* The ownership loop over the given ids: TRUE when it traps.
SomeGivenNotOwned(s, caller, givenCardIds) ==
  \E i \in DOMAIN givenCardIds : ~verifyCardOwnership(s, caller, givenCardIds[i])

\* Variant of recordTradeTransaction: every card whose id is among the given
\* ids becomes tradedGiven, whatever its transactionType.
recordTradeTransactionAnyState(s, caller, t, givenCardIds, receivedCardIds) ==
  IF ~hasPermission(caller)
  THEN Trap(s, "Unauthorized: Only logged in users can record trades")
  ELSE IF SomeGivenNotOwned(s, caller, givenCardIds)
  THEN Trap(s, "Unauthorized: One or more cards do not belong to caller")
  ELSE IF caller \notin DOMAIN s.cards
  THEN Trap(s, "Card not found")
  ELSE
    LET currentCards == s.cards[caller]
        Upd(card) ==
          IF card.id \in Range(givenCardIds)
          THEN [card EXCEPT
                  !.transactionType = "tradedGiven",
                  !.tradeReference = Some([givenCards |-> givenCardIds,
                                           receivedCards |-> receivedCardIds])]
          ELSE card
        s2 == [s EXCEPT !.cards = Put(@, caller, MapSeq(Upd, currentCards))]
    IN  Ok(logChange(s2, caller, t, "trade", givenCardIds,
                     <<"Recorded trade: ">> \o NatToText(Len(givenCardIds))
                       \o <<" cards given, ">>
                       \o NatToText(Len(receivedCardIds)) \o <<" received">>),
           None)

recordTradeTransaction(s, caller, t, givenCardIds, receivedCardIds) ==
  IF ~hasPermission(caller)
  THEN Trap(s, "Unauthorized: Only logged in users can record trades")
  ELSE IF SomeGivenNotOwned(s, caller, givenCardIds)
  THEN Trap(s, "Unauthorized: One or more cards do not belong to caller")
  ELSE IF caller \notin DOMAIN s.cards
  THEN Trap(s, "Card not found")
  ELSE
    LET currentCards == s.cards[caller]
        existingIdsSet == {currentCards[i].id : i \in DOMAIN currentCards}
        Exists(id) == id \in existingIdsSet
        existingGivenIds == FilterSeq(Exists, givenCardIds)
        Upd(card) == TradedGivenCard(card, existingGivenIds, receivedCardIds)
        s2 == [s EXCEPT !.cards = Put(@, caller, MapSeq(Upd, currentCards))]
    IN  IF Len(existingGivenIds) # Len(givenCardIds) /\ Len(existingGivenIds) = 0
        THEN Trap(s, "Unable to trade, non-existing cards")
        ELSE Ok(logChange(s2, caller, t, "trade", existingGivenIds,
                          <<"Recorded trade: ">> \o NatToText(Len(existingGivenIds))
                            \o <<" cards given, ">>
                            \o NatToText(Len(receivedCardIds)) \o <<" received">>),
                None)

\* -------------------------------------------------- revertTradeTransaction
RevertedCard(card, cardId) ==
  IF card.id = cardId /\ card.transactionType = "tradedGiven"
  THEN [card EXCEPT !.transactionType = "forSale", !.tradeReference = None]
  ELSE card

\* Variant of revertTradeTransaction: every tradedGiven card named in
\* tradeTransaction.givenCards is reverted with the card.
revertTradeTransactionWholeTrade(s, caller, t, cardId, givenCards, receivedCards) ==
  IF ~hasPermission(caller)
  THEN Trap(s, "Unauthorized: Only logged in users can revert trades")
  ELSE IF ~verifyCardOwnership(s, caller, cardId)
  THEN Trap(s, "Unauthorized: Card does not belong to caller")
  ELSE
    LET currentCards == s.cards[caller]
        Upd(card) ==
          IF /\ card.transactionType = "tradedGiven"
             /\ (card.id = cardId \/ card.id \in Range(givenCards))
          THEN [card EXCEPT !.transactionType = "forSale", !.tradeReference = None]
          ELSE card
        s2 == [s EXCEPT !.cards = Put(@, caller, MapSeq(Upd, currentCards))]
    IN  Ok(logChange(s2, caller, t, "revertTrade", givenCards,
                     <<"Reverted trade for card: ">> \o NatToText(cardId)),
           None)

\* Variant of revertTradeTransaction: the card becomes forSale whatever its
\* transactionType.
revertTradeTransactionAnyState(s, caller, t, cardId, givenCards, receivedCards) ==
  IF ~hasPermission(caller)
  THEN Trap(s, "Unauthorized: Only logged in users can revert trades")
  ELSE IF ~verifyCardOwnership(s, caller, cardId)
  THEN Trap(s, "Unauthorized: Card does not belong to caller")
  ELSE
    LET currentCards == s.cards[caller]
        Upd(card) ==
          IF card.id = cardId
          THEN [card EXCEPT !.transactionType = "forSale", !.tradeReference = None]
          ELSE card
        s2 == [s EXCEPT !.cards = Put(@, caller, MapSeq(Upd, currentCards))]
    IN  Ok(logChange(s2, caller, t, "revertTrade", givenCards,
                     <<"Reverted trade for card: ">> \o NatToText(cardId)),
           None)

\* tradeTransaction.receivedCards is destructured and never used.
revertTradeTransaction(s, caller, t, cardId, givenCards, receivedCards) ==
  IF ~hasPermission(caller)
  THEN Trap(s, "Unauthorized: Only logged in users can revert trades")
  ELSE IF ~verifyCardOwnership(s, caller, cardId)
  THEN Trap(s, "Unauthorized: Card does not belong to caller")
  ELSE IF caller \notin DOMAIN s.cards
  THEN Trap(s, "Card not found")
  ELSE
    LET currentCards == s.cards[caller]
        Upd(card) == RevertedCard(card, cardId)
        s2 == [s EXCEPT !.cards = Put(@, caller, MapSeq(Upd, currentCards))]
    IN  IF Matching(currentCards, cardId) = <<>>
        THEN Trap(s, "Non-existing trade card")
        ELSE Ok(logChange(s2, caller, t, "revertTrade", givenCards,
                          <<"Reverted trade for card: ">> \o NatToText(cardId)),
                None)

\* -------------------------------------------------- backfillHistoryEntries
\* The entries one card contributes, as (action, summary) pairs in the
\* order they are logged.
BackfillEntries(card) ==
  LET added == [action |-> "addCard",
                summary |-> <<"Backfilled: Added card #">> \o NatToText(card.id)
                              \o <<" (", card.name, ")">>]
      salePriceText == IF card.salePrice = None THEN <<"unknown price">>
                       ELSE NatToText(card.salePrice[1])
      sold == [action |-> "markSold",
               summary |-> <<"Backfilled: Sold card #">> \o NatToText(card.id)
                             \o <<" (", card.name, ") for ">> \o salePriceText]
  IN  CASE card.transactionType = "forSale" -> <<added>>
        [] card.transactionType = "sold" -> <<added, sold>>
        [] OTHER -> <<>>

RECURSIVE LogAll(_, _, _, _, _)
LogAll(s, user, t, cardId, entries) ==
  IF entries = <<>> THEN s
  ELSE LogAll(logChange(s, user, t, Head(entries).action, <<cardId>>,
                        Head(entries).summary),
              user, t, cardId, Tail(entries))

RECURSIVE BackfillLoop(_, _, _, _)
BackfillLoop(s, caller, t, userCards) ==
  IF userCards = <<>> THEN s
  ELSE BackfillLoop(LogAll(s, caller, t, Head(userCards).id,
                           BackfillEntries(Head(userCards))),
                    caller, t, Tail(userCards))

\* Variant of backfillHistoryEntries: the marker is set only when the caller
\* has a card list.
backfillHistoryEntriesMarkIfCards(s, caller, t) ==
  IF ~hasPermission(caller)
  THEN Trap(s, "Unauthorized: Only users can backfill their history")
  ELSE IF caller \in DOMAIN s.backfillMarker
  THEN Ok(s, None)
  ELSE IF caller \in DOMAIN s.cards
  THEN Ok([BackfillLoop(s, caller, t, s.cards[caller]) EXCEPT
             !.backfillMarker = Put(@, caller, TRUE)], None)
  ELSE Ok(s, None)

backfillHistoryEntries(s, caller, t) ==
  IF ~hasPermission(caller)
  THEN Trap(s, "Unauthorized: Only users can backfill their history")
  ELSE IF caller \in DOMAIN s.backfillMarker
  THEN Ok(s, None)
  ELSE
    LET s2 == IF caller \in DOMAIN s.cards
              THEN BackfillLoop(s, caller, t, s.cards[caller])
              ELSE s
    IN  Ok([s2 EXCEPT !.backfillMarker = Put(@, caller, TRUE)], None)

\* ---------------------------------------------------------------- profiles
\* Variant of saveCallerUserProfile: the profile is stored for every
\* principal that has one.
saveCallerUserProfileForAll(s, caller, profile) ==
  IF ~hasPermission(caller)
  THEN Trap(s, "Unauthorized: Only users can save profiles")
  ELSE Ok([s EXCEPT !.userProfiles =
             [x \in (DOMAIN @) \cup {caller} |-> profile]], None)

saveCallerUserProfile(s, caller, profile) ==
  IF ~hasPermission(caller)
  THEN Trap(s, "Unauthorized: Only users can save profiles")
  ELSE Ok([s EXCEPT !.userProfiles = Put(@, caller, profile)], None)

getCallerUserProfile(s, caller) ==
  IF ~hasPermission(caller)
  THEN [result |-> "Unauthorized: Only users can view profiles", profile |-> None]
  ELSE [result |-> "ok",
        profile |-> IF caller \in DOMAIN s.userProfiles
                    THEN Some(s.userProfiles[caller]) ELSE None]

\* --------------------------------------------------------------- actions
RECURSIVE SumLen(_, _)
SumLen(m, keys) ==
  IF keys = {} THEN 0
  ELSE LET k == CHOOSE x \in keys : TRUE
       IN  Len(m[k]) + SumLen(m, keys \ {k})
TotalEntries(h) == SumLen(h, DOMAIN h)

\* Time.now() of the message being executed: the clock does not go back.
Times == {x \in {now, now + 1} : x <= MaxTime}

Call(op, caller) == [NoCall EXCEPT !.op = op, !.caller = caller]

\* The message `call` was executed with result r.  An accepted message
\* commits r.st; a trapped message leaves no trace in the actor (r.st is the
\* state before the call), so it is a stuttering step.
Apply(call, r, t) ==
  /\ TotalEntries(r.st.changeHistory) <= MaxHist
  /\ r.st.nextCardId <= MaxCards
  /\ cards' = r.st.cards
  /\ changeHistory' = r.st.changeHistory
  /\ userProfiles' = r.st.userProfiles
  /\ backfillMarker' = r.st.backfillMarker
  /\ nextCardId' = r.st.nextCardId
  /\ now' = IF r.result = "ok" THEN t ELSE now
  /\ last' = IF r.result = "ok" THEN [call EXCEPT !.ret = r.ret] ELSE last
  /\ flow' = flow

AddCard ==
  \E caller \in Principals, in \in AddCardInputs, t \in Times :
    Apply([Call("addCard", caller) EXCEPT !.attrs = Some(in[1]), !.image = in[2]],
          addCard(State, caller, t, in[1], in[2]), t)

UpdateSalePrice ==
  \E caller \in Principals, cardId \in CardIds, price \in SalePrices, t \in Times :
    Apply([Call("updateSalePrice", caller) EXCEPT
             !.cardId = Some(cardId), !.price = Some(price)],
          updateSalePrice(State, caller, t, cardId, price), t)

UpdateCard ==
  \E caller \in Principals, cardId \in CardIds, attrs \in CardAttrs, t \in Times :
    Apply([Call("updateCard", caller) EXCEPT
             !.cardId = Some(cardId), !.attrs = Some(attrs)],
          updateCard(State, caller, t, cardId, attrs), t)

DeleteCard ==
  \E caller \in Principals, cardId \in CardIds, t \in Times :
    Apply([Call("deleteCard", caller) EXCEPT !.cardId = Some(cardId)],
          deleteCard(State, caller, t, cardId), t)

MarkCardAsSold ==
  \E caller \in Principals, cardId \in CardIds, price \in SalePrices,
     date \in SaleDates, t \in Times :
    Apply([Call("markCardAsSold", caller) EXCEPT
             !.cardId = Some(cardId), !.price = Some(price), !.date = Some(date)],
          markCardAsSold(State, caller, t, cardId, price, date), t)

RecordTradeTransaction ==
  \E caller \in Principals, given \in IdLists, received \in ShortIdLists,
     t \in Times :
    Apply([Call("recordTradeTransaction", caller) EXCEPT
             !.given = given, !.received = received],
          recordTradeTransaction(State, caller, t, given, received), t)

RevertTradeTransaction ==
  \E caller \in Principals, cardId \in CardIds, given \in ShortIdLists,
     received \in {<<>>}, t \in Times :
    Apply([Call("revertTradeTransaction", caller) EXCEPT
             !.cardId = Some(cardId), !.given = given, !.received = received],
          revertTradeTransaction(State, caller, t, cardId, given, received), t)

BackfillHistoryEntries ==
  \E caller \in Principals, t \in Times :
    Apply(Call("backfillHistoryEntries", caller),
          backfillHistoryEntries(State, caller, t), t)

Next ==
  \/ AddCard
  \/ UpdateSalePrice
  \/ UpdateCard
  \/ DeleteCard
  \/ MarkCardAsSold
  \/ RecordTradeTransaction
  \/ RevertTradeTransaction
  \/ BackfillHistoryEntries

Spec == Init /\ [][Next]_vars

\* Apply with the bounds given: the message `call` was executed with result r.
Commit(call, r, t, maxHist, maxCards) ==
  /\ TotalEntries(r.st.changeHistory) <= maxHist
  /\ r.st.nextCardId <= maxCards
  /\ cards' = r.st.cards
  /\ changeHistory' = r.st.changeHistory
  /\ userProfiles' = r.st.userProfiles
  /\ backfillMarker' = r.st.backfillMarker
  /\ nextCardId' = r.st.nextCardId
  /\ now' = IF r.result = "ok" THEN t ELSE now
  /\ last' = IF r.result = "ok" THEN [call EXCEPT !.ret = r.ret] ELSE last
  /\ flow' = flow

\* ------------------------------------------- the partition specification
\* Every update method of the base specification and saveCallerUserProfile,
\* called by every principal while the clock stands still.
PartitionTimes == {now}

PartitionAddCard ==
  \E caller \in Principals, in \in AddCardInputs, t \in PartitionTimes :
    Commit([Call("addCard", caller) EXCEPT !.attrs = Some(in[1]), !.image = in[2]],
           addCard(State, caller, t, in[1], in[2]), t,
           MaxPartitionHist, MaxCards)

PartitionUpdateSalePrice ==
  \E caller \in Principals, cardId \in CardIds, price \in SalePrices,
     t \in PartitionTimes :
    Commit([Call("updateSalePrice", caller) EXCEPT
              !.cardId = Some(cardId), !.price = Some(price)],
           updateSalePrice(State, caller, t, cardId, price), t,
           MaxPartitionHist, MaxCards)

PartitionUpdateCard ==
  \E caller \in Principals, cardId \in CardIds, attrs \in CardAttrs,
     t \in PartitionTimes :
    Commit([Call("updateCard", caller) EXCEPT
              !.cardId = Some(cardId), !.attrs = Some(attrs)],
           updateCard(State, caller, t, cardId, attrs), t,
           MaxPartitionHist, MaxCards)

PartitionDeleteCard ==
  \E caller \in Principals, cardId \in CardIds, t \in PartitionTimes :
    Commit([Call("deleteCard", caller) EXCEPT !.cardId = Some(cardId)],
           deleteCard(State, caller, t, cardId), t,
           MaxPartitionHist, MaxCards)

PartitionMarkCardAsSold ==
  \E caller \in Principals, cardId \in CardIds, price \in SalePrices,
     date \in SaleDates, t \in PartitionTimes :
    Commit([Call("markCardAsSold", caller) EXCEPT
              !.cardId = Some(cardId), !.price = Some(price), !.date = Some(date)],
           markCardAsSold(State, caller, t, cardId, price, date), t,
           MaxPartitionHist, MaxCards)

PartitionRecordTrade ==
  \E caller \in Principals, given \in IdLists, received \in ShortIdLists,
     t \in PartitionTimes :
    Commit([Call("recordTradeTransaction", caller) EXCEPT
              !.given = given, !.received = received],
           recordTradeTransaction(State, caller, t, given, received), t,
           MaxPartitionHist, MaxCards)

PartitionRevertTrade ==
  \E caller \in Principals, cardId \in CardIds, given \in ShortIdLists,
     t \in PartitionTimes :
    Commit([Call("revertTradeTransaction", caller) EXCEPT
              !.cardId = Some(cardId), !.given = given],
           revertTradeTransaction(State, caller, t, cardId, given, <<>>), t,
           MaxPartitionHist, MaxCards)

PartitionBackfill ==
  \E caller \in Principals, t \in PartitionTimes :
    Commit(Call("backfillHistoryEntries", caller),
           backfillHistoryEntries(State, caller, t), t,
           MaxPartitionHist, MaxCards)

PartitionSaveProfile ==
  \E caller \in Principals, profile \in Profiles, t \in PartitionTimes :
    Commit(Call("saveCallerUserProfile", caller),
           saveCallerUserProfile(State, caller, profile), t,
           MaxPartitionHist, MaxCards)

PartitionNext ==
  \/ PartitionAddCard
  \/ PartitionUpdateSalePrice
  \/ PartitionUpdateCard
  \/ PartitionDeleteCard
  \/ PartitionMarkCardAsSold
  \/ PartitionRecordTrade
  \/ PartitionRevertTrade
  \/ PartitionBackfill
  \/ PartitionSaveProfile

SpecPartition == Init /\ [][PartitionNext]_vars

\* ------------------------------------------- the portfolio specification
\* The update methods that change what the aggregates read, called by one
\* user (and by the principal without permission) on up to
\* MaxPortfolioCards cards of every payment method.
PortfolioCallers == {"alice", "mallory"}
PortfolioAttrs ==
  { [name |-> "Messi", purchasePrice |-> 100, discountPercent |-> 20,
     paymentMethod |-> "cash"],
    [name |-> "Zico", purchasePrice |-> 500, discountPercent |-> 0,
     paymentMethod |-> "cash"],
    [name |-> "Kaka", purchasePrice |-> 999, discountPercent |-> 0,
     paymentMethod |-> "eth"],
    [name |-> "Pele", purchasePrice |-> 999, discountPercent |-> 0,
     paymentMethod |-> "essence"],
    [name |-> "Xavi", purchasePrice |-> 300, discountPercent |-> 50,
     paymentMethod |-> "trade"] }
PortfolioCardIds == 0 .. (MaxPortfolioCards - 1)
\* Time.now() of a message: in this specification the clock stands still.
PortfolioTimes == {now}

PortfolioAddCard ==
  \E caller \in PortfolioCallers, attrs \in PortfolioAttrs,
     t \in PortfolioTimes :
    Commit([Call("addCard", caller) EXCEPT !.attrs = Some(attrs)],
           addCard(State, caller, t, attrs, None), t,
           MaxPortfolioHist, MaxPortfolioCards)

PortfolioUpdateSalePrice ==
  \E caller \in PortfolioCallers, cardId \in PortfolioCardIds,
     price \in SalePrices, t \in PortfolioTimes :
    Commit([Call("updateSalePrice", caller) EXCEPT
              !.cardId = Some(cardId), !.price = Some(price)],
           updateSalePrice(State, caller, t, cardId, price), t,
           MaxPortfolioHist, MaxPortfolioCards)

PortfolioMarkCardAsSold ==
  \E caller \in PortfolioCallers, cardId \in PortfolioCardIds,
     price \in SalePrices, date \in SaleDates, t \in PortfolioTimes :
    Commit([Call("markCardAsSold", caller) EXCEPT
              !.cardId = Some(cardId), !.price = Some(price), !.date = Some(date)],
           markCardAsSold(State, caller, t, cardId, price, date), t,
           MaxPortfolioHist, MaxPortfolioCards)

PortfolioDeleteCard ==
  \E caller \in PortfolioCallers, cardId \in PortfolioCardIds,
     t \in PortfolioTimes :
    Commit([Call("deleteCard", caller) EXCEPT !.cardId = Some(cardId)],
           deleteCard(State, caller, t, cardId), t,
           MaxPortfolioHist, MaxPortfolioCards)

PortfolioRecordTrade ==
  \E caller \in PortfolioCallers, cardId \in PortfolioCardIds,
     t \in PortfolioTimes :
    Commit([Call("recordTradeTransaction", caller) EXCEPT !.given = <<cardId>>],
           recordTradeTransaction(State, caller, t, <<cardId>>, <<>>), t,
           MaxPortfolioHist, MaxPortfolioCards)

PortfolioNext ==
  \/ PortfolioAddCard
  \/ PortfolioUpdateSalePrice
  \/ PortfolioMarkCardAsSold
  \/ PortfolioDeleteCard
  \/ PortfolioRecordTrade

SpecPortfolio == Init /\ [][PortfolioNext]_vars

\* ----------------------------------------------- the trades specification
\* addCard, recordTradeTransaction and revertTradeTransaction called by one
\* user (and by the principal without permission) on up to MaxPortfolioCards
\* cards, with trades of several cards.
TradeAttrs ==
  { [name |-> "Messi", purchasePrice |-> 100, discountPercent |-> 20,
     paymentMethod |-> "cash"] }
TradeGivenLists ==
  {<<>>} \cup {<<i>> : i \in PortfolioCardIds}
         \cup {p \in PortfolioCardIds \X PortfolioCardIds : p[1] < p[2]}
TradeReceivedLists == {<<>>, <<MaxPortfolioCards - 1>>}
\* The trade references a caller passes to revertTradeTransaction: those its
\* cards carry, and the empty one.
RevertReferences(caller) ==
  LET list == getAllCardsForUserInternal(State, caller)
  IN  {list[i].tradeReference[1] :
         i \in {j \in DOMAIN list : list[j].tradeReference # None}}
      \cup {[givenCards |-> <<>>, receivedCards |-> <<>>]}

TradesAddCard ==
  \E caller \in PortfolioCallers, attrs \in TradeAttrs, t \in PortfolioTimes :
    Commit([Call("addCard", caller) EXCEPT !.attrs = Some(attrs)],
           addCard(State, caller, t, attrs, None), t,
           MaxPortfolioHist, MaxPortfolioCards)

TradesRecordTrade ==
  \E caller \in PortfolioCallers, given \in TradeGivenLists,
     received \in TradeReceivedLists, t \in PortfolioTimes :
    Commit([Call("recordTradeTransaction", caller) EXCEPT
              !.given = given, !.received = received],
           recordTradeTransaction(State, caller, t, given, received), t,
           MaxPortfolioHist, MaxPortfolioCards)

TradesRevertTrade ==
  \E caller \in PortfolioCallers, cardId \in PortfolioCardIds,
     t \in PortfolioTimes :
    \E ref \in RevertReferences(caller) :
      Commit([Call("revertTradeTransaction", caller) EXCEPT
                !.cardId = Some(cardId), !.given = ref.givenCards,
                !.received = ref.receivedCards],
             revertTradeTransaction(State, caller, t, cardId,
                                    ref.givenCards, ref.receivedCards), t,
             MaxPortfolioHist, MaxPortfolioCards)

TradesNext ==
  \/ TradesAddCard
  \/ TradesRecordTrade
  \/ TradesRevertTrade

SpecTrades == Init /\ [][TradesNext]_vars

\* -------------------------------------------- the lifecycle specification
\* The methods that move a card through its lifecycle (addCard,
\* markCardAsSold, recordTradeTransaction, revertTradeTransaction) and
\* deleteCard, called by one user (and by the principal without permission)
\* on up to MaxPortfolioCards cards, with trades of several cards.
LifecycleAddCard ==
  \E caller \in PortfolioCallers, attrs \in TradeAttrs, t \in PortfolioTimes :
    Commit([Call("addCard", caller) EXCEPT !.attrs = Some(attrs)],
           addCard(State, caller, t, attrs, None), t,
           MaxPortfolioHist, MaxPortfolioCards)

LifecycleMarkCardAsSold ==
  \E caller \in PortfolioCallers, cardId \in PortfolioCardIds,
     price \in SalePrices, date \in SaleDates, t \in PortfolioTimes :
    Commit([Call("markCardAsSold", caller) EXCEPT
              !.cardId = Some(cardId), !.price = Some(price), !.date = Some(date)],
           markCardAsSold(State, caller, t, cardId, price, date), t,
           MaxPortfolioHist, MaxPortfolioCards)

LifecycleDeleteCard ==
  \E caller \in PortfolioCallers, cardId \in PortfolioCardIds,
     t \in PortfolioTimes :
    Commit([Call("deleteCard", caller) EXCEPT !.cardId = Some(cardId)],
           deleteCard(State, caller, t, cardId), t,
           MaxPortfolioHist, MaxPortfolioCards)

LifecycleRecordTrade ==
  \E caller \in PortfolioCallers, given \in TradeGivenLists,
     received \in TradeReceivedLists, t \in PortfolioTimes :
    Commit([Call("recordTradeTransaction", caller) EXCEPT
              !.given = given, !.received = received],
           recordTradeTransaction(State, caller, t, given, received), t,
           MaxPortfolioHist, MaxPortfolioCards)

LifecycleRevertTrade ==
  \E caller \in PortfolioCallers, cardId \in PortfolioCardIds,
     t \in PortfolioTimes :
    \E ref \in RevertReferences(caller) :
      Commit([Call("revertTradeTransaction", caller) EXCEPT
                !.cardId = Some(cardId), !.given = ref.givenCards,
                !.received = ref.receivedCards],
             revertTradeTransaction(State, caller, t, cardId,
                                    ref.givenCards, ref.receivedCards), t,
             MaxPortfolioHist, MaxPortfolioCards)

LifecycleNext ==
  \/ LifecycleAddCard
  \/ LifecycleMarkCardAsSold
  \/ LifecycleDeleteCard
  \/ LifecycleRecordTrade
  \/ LifecycleRevertTrade

SpecLifecycle == Init /\ [][LifecycleNext]_vars

\* --------------------------------------------------------------- queries
getAllCardsForUser(s, caller) ==
  IF ~hasPermission(caller)
  THEN [result |-> "Unauthorized: Only users can access their cards", cards |-> <<>>]
  ELSE [result |-> "ok", cards |-> getAllCardsForUserInternal(s, caller)]

\* ------------------------------------------------------------ aggregates
\* card.purchasePrice * (1.0 - (card.discountPercent / 100.0))
discountedPrice(card) ==
  FloatMul(FloatOf(card.purchasePrice),
           FloatSub(FloatOf(1), FloatDiv(FloatOf(card.discountPercent),
                                         FloatOf(100))))

\* The sale price a sold card adds to the returns: none when it is absent.
soldPrice(total, card) ==
  IF card.transactionType = "sold" /\ card.salePrice # None
  THEN FloatAdd(total, FloatOf(card.salePrice[1]))
  ELSE total

calculateInvestmentTotals(s, caller) ==
  IF ~hasPermission(caller)
  THEN [result |-> "Unauthorized: Only users can access portfolio data"]
  ELSE
    LET Step(acc, card) ==
          CASE card.paymentMethod = "cash" ->
                 [acc EXCEPT !.totalCash = FloatAdd(@, discountedPrice(card))]
            [] card.paymentMethod = "eth" ->
                 [acc EXCEPT !.totalEth = FloatAdd(@, discountedPrice(card))]
            [] OTHER -> acc
        end == FoldLeft(Step, [totalCash |-> 0, totalEth |-> 0],
                        getAllCardsForUserInternal(s, caller))
    IN  [result |-> "ok",
         totalCashInvested |-> end.totalCash,
         totalEthInvested |-> end.totalEth]

\* Variant of calculateTotalInvested: every card counts, whatever its
\* payment method.
calculateTotalInvestedAllMethods(s, caller) ==
  IF ~hasPermission(caller)
  THEN [result |-> "Unauthorized: Only users can access portfolio data"]
  ELSE
    LET Step(total, card) == FloatAdd(total, discountedPrice(card))
    IN  [result |-> "ok",
         value |-> FoldLeft(Step, 0, getAllCardsForUserInternal(s, caller))]

calculateTotalInvested(s, caller) ==
  IF ~hasPermission(caller)
  THEN [result |-> "Unauthorized: Only users can access portfolio data"]
  ELSE
    LET Step(total, card) ==
          IF card.paymentMethod \in {"cash", "eth"}
          THEN FloatAdd(total, discountedPrice(card))
          ELSE total
    IN  [result |-> "ok",
         value |-> FoldLeft(Step, 0, getAllCardsForUserInternal(s, caller))]

\* Variant of calculateTotalBalance: the invested amount is the sum of a cash
\* total and an eth total accumulated apart.
calculateTotalBalanceFromTotals(s, caller) ==
  IF ~hasPermission(caller)
  THEN [result |-> "Unauthorized: Only users can access portfolio data"]
  ELSE
    LET Step(acc, card) ==
          [totalCash |->
             IF card.paymentMethod = "cash"
             THEN FloatAdd(acc.totalCash, discountedPrice(card))
             ELSE acc.totalCash,
           totalEth |->
             IF card.paymentMethod = "eth"
             THEN FloatAdd(acc.totalEth, discountedPrice(card))
             ELSE acc.totalEth,
           totalReturns |-> soldPrice(acc.totalReturns, card)]
        end == FoldLeft(Step, [totalCash |-> 0, totalEth |-> 0, totalReturns |-> 0],
                        getAllCardsForUserInternal(s, caller))
    IN  [result |-> "ok",
         value |-> FloatSub(end.totalReturns,
                            FloatAdd(end.totalCash, end.totalEth))]

calculateTotalBalance(s, caller) ==
  IF ~hasPermission(caller)
  THEN [result |-> "Unauthorized: Only users can access portfolio data"]
  ELSE
    LET Step(acc, card) ==
          [totalInvested |->
             IF card.paymentMethod \in {"cash", "eth"}
             THEN FloatAdd(acc.totalInvested, discountedPrice(card))
             ELSE acc.totalInvested,
           totalReturns |-> soldPrice(acc.totalReturns, card)]
        end == FoldLeft(Step, [totalInvested |-> 0, totalReturns |-> 0],
                        getAllCardsForUserInternal(s, caller))
    IN  [result |-> "ok",
         value |-> FloatSub(end.totalReturns, end.totalInvested)]

\* Variant of calculateTotalReturns: every card with a sale price counts,
\* sold or not.
calculateTotalReturnsAnyState(s, caller) ==
  IF ~hasPermission(caller)
  THEN [result |-> "Unauthorized: Only users can access portfolio data"]
  ELSE
    LET Step(total, card) ==
          IF card.salePrice # None
          THEN FloatAdd(total, FloatOf(card.salePrice[1]))
          ELSE total
    IN  [result |-> "ok",
         value |-> FoldLeft(Step, 0, getAllCardsForUserInternal(s, caller))]

calculateTotalReturns(s, caller) ==
  IF ~hasPermission(caller)
  THEN [result |-> "Unauthorized: Only users can access portfolio data"]
  ELSE
    [result |-> "ok",
     value |-> FoldLeft(soldPrice, 0, getAllCardsForUserInternal(s, caller))]

\* Variant of getSoldCardBalance: the purchase cost of an essence card is
\* subtracted like any other.
getSoldCardBalanceEssenceCosts(s, caller) ==
  IF ~hasPermission(caller)
  THEN [result |-> "Unauthorized: Only registered users can access balances"]
  ELSE
    LET Step(balance, card) ==
          IF card.transactionType = "sold"
          THEN FloatSub(soldPrice(balance, card), discountedPrice(card))
          ELSE balance
    IN  [result |-> "ok",
         value |-> FoldLeft(Step, 0, getAllCardsForUserInternal(s, caller))]

getSoldCardBalance(s, caller) ==
  IF ~hasPermission(caller)
  THEN [result |-> "Unauthorized: Only registered users can access balances"]
  ELSE
    LET Step(balance, card) ==
          IF card.transactionType = "sold"
          THEN LET withPrice == soldPrice(balance, card)
               IN  IF card.paymentMethod # "essence"
                   THEN FloatSub(withPrice, discountedPrice(card))
                   ELSE withPrice
          ELSE balance
    IN  [result |-> "ok",
         value |-> FoldLeft(Step, 0, getAllCardsForUserInternal(s, caller))]

getPortfolioSnapshot(s, caller) ==
  IF ~hasPermission(caller)
  THEN [result |-> "Unauthorized: Only users can get portfolio data"]
  ELSE
    LET allCards == getAllCardsForUserInternal(s, caller)
        Step(acc, card) ==
          LET paid ==
                CASE card.paymentMethod = "cash" ->
                       [acc EXCEPT
                          !.totalCash = FloatAdd(@, discountedPrice(card)),
                          !.totalInvested = FloatAdd(@, discountedPrice(card))]
                  [] card.paymentMethod = "eth" ->
                       [acc EXCEPT
                          !.totalEth = FloatAdd(@, discountedPrice(card)),
                          !.totalInvested = FloatAdd(@, discountedPrice(card))]
                  [] OTHER -> acc
          IN  [paid EXCEPT !.totalReturns = soldPrice(@, card)]
        end == FoldLeft(Step, [totalCash |-> 0, totalEth |-> 0,
                               totalInvested |-> 0, totalReturns |-> 0],
                        allCards)
    IN  [result |-> "ok",
         investmentTotals |-> [totalCashInvested |-> end.totalCash,
                               totalEthInvested |-> end.totalEth],
         totalInvested |-> end.totalInvested,
         totalBalance |-> FloatSub(end.totalReturns, end.totalInvested),
         totalReturns |-> end.totalReturns,
         totalReturnBalance |-> FloatSub(end.totalReturns, end.totalInvested),
         portfolioTotal |-> FloatAdd(end.totalReturns, end.totalInvested),
         holdBalance |-> end.totalInvested,
         allCards |-> allCards]

\* Variant of compareEntriesByTime: the older entry is ordered first.
compareEntriesByTimeAscending(entry1, entry2) ==
  IF entry1.timestamp < entry2.timestamp THEN "less"
  ELSE IF entry1.timestamp > entry2.timestamp THEN "greater"
  ELSE "equal"

compareEntriesByTime(entry1, entry2) ==
  IF entry1.timestamp < entry2.timestamp THEN "greater"
  ELSE IF entry1.timestamp > entry2.timestamp THEN "less"
  ELSE "equal"

\* List.sort of the core library with compareEntriesByTime: a stable sort,
\* computed by inserting the entries in list order, each one behind every
\* entry it is not less than.
RECURSIVE insertEntry(_, _)
insertEntry(sorted, entry) ==
  IF sorted = <<>> THEN <<entry>>
  ELSE IF compareEntriesByTime(entry, Head(sorted)) = "less"
       THEN <<entry>> \o sorted
       ELSE <<Head(sorted)>> \o insertEntry(Tail(sorted), entry)

RECURSIVE sortInto(_, _)
sortInto(sorted, history) ==
  IF history = <<>> THEN sorted
  ELSE sortInto(insertEntry(sorted, Head(history)), Tail(history))

sort(history) == sortInto(<<>>, history)

\* Array.sliceToArray(from, to): the elements at indices from .. to - 1,
\* indices counted from 0.
sliceToArray(array, from, to) == SubSeq(array, from + 1, to)

NatMin(a, b) == IF a <= b THEN a ELSE b

getChangeHistoryInternal(s, user, limit, offset) ==
  IF user \notin DOMAIN s.changeHistory THEN <<>>
  ELSE
    LET sortedArray == sort(s.changeHistory[user])
    IN  IF Len(sortedArray) <= offset THEN <<>>
        ELSE sliceToArray(sliceToArray(sortedArray, offset, Len(sortedArray)),
                          0, NatMin(limit, Len(sortedArray) - offset))

\* Variant of getChangeHistory: the permission of the caller is not checked.
getChangeHistoryOpen(s, caller, limit, offset) ==
  [result |-> "ok",
   entries |-> getChangeHistoryInternal(s, caller, limit, offset)]

getChangeHistory(s, caller, limit, offset) ==
  IF ~hasPermission(caller)
  THEN [result |-> "Unauthorized: Must be logged in for change history",
        entries |-> <<>>]
  ELSE [result |-> "ok",
        entries |-> getChangeHistoryInternal(s, caller, limit, offset)]

\* ------------------------------------------------------------ error kinds
\* The trap messages of the update methods, by the kind their text states.
UnauthorizedMessages ==
  { "Unauthorized: Only users can add cards",
    "Unauthorized: Only users can update cards",
    "Unauthorized: Only users can delete cards",
    "Unauthorized: Only users can sell cards",
    "Unauthorized: Only logged in users can record trades",
    "Unauthorized: Only logged in users can revert trades",
    "Unauthorized: Only users can backfill their history",
    "Unauthorized: Card does not belong to caller",
    "Unauthorized: One or more cards do not belong to caller" }
NotFoundMessages ==
  { "Card not found", "Cards not found", "CardId not found",
    "Non-existing trade card", "Unable to trade, non-existing cards" }
ErrorKind(result) ==
  IF result \in UnauthorizedMessages THEN "Unauthorized"
  ELSE IF result \in NotFoundMessages THEN "NotFound"
  ELSE "ok"

\* ------------------------------------------- the trade flow specification
\* handleTrade of the sell-or-trade dialog, step by step: one addCard call
\* per card to receive, awaited one after the other, then one
\* recordTradeTransaction call giving the card of the dialog and receiving
\* the new ids.  Between the steps the same user (another window of the
\* client) adds, sells and deletes cards.
\* Cards to receive in one flow.
MaxFlowCards == 2

\* A step of the flow executed the message whose result is r and moves the
\* dialog to nextFlow.
FlowCommit(call, r, t, nextFlow) ==
  /\ TotalEntries(r.st.changeHistory) <= MaxPortfolioHist
  /\ r.st.nextCardId <= MaxPortfolioCards
  /\ cards' = r.st.cards
  /\ changeHistory' = r.st.changeHistory
  /\ userProfiles' = r.st.userProfiles
  /\ backfillMarker' = r.st.backfillMarker
  /\ nextCardId' = r.st.nextCardId
  /\ now' = IF r.result = "ok" THEN t ELSE now
  /\ last' = IF r.result = "ok" THEN [call EXCEPT !.ret = r.ret] ELSE last
  /\ flow' = nextFlow

\* The trade button of the dialog opened on a card of the caller's listing,
\* with n cards to receive entered (handleTrade returns when there is none).
HandleTradeStart ==
  \E caller \in PortfolioCallers, cardId \in PortfolioCardIds,
     n \in 1 .. MaxFlowCards :
    /\ flow.pc \in {"idle", "done", "failed"}
    /\ \E i \in DOMAIN getAllCardsForUser(State, caller).cards :
         getAllCardsForUser(State, caller).cards[i].id = cardId
    /\ flow' = [pc |-> "adding", caller |-> caller, card |-> Some(cardId),
                toAdd |-> n, newCardIds |-> <<>>]
    /\ UNCHANGED <<cards, changeHistory, userProfiles, backfillMarker,
                   nextCardId, now, last>>

\* One turn of the loop: await addCard and push the id; a rejected call
\* throws and the catch ends the flow.
HandleTradeAddCard ==
  \E attrs \in TradeAttrs, t \in PortfolioTimes :
    /\ flow.pc = "adding"
    /\ LET r == addCard(State, flow.caller, t, attrs, None)
       IN  FlowCommit([Call("addCard", flow.caller) EXCEPT !.attrs = Some(attrs)],
                      r, t,
                      IF r.result = "ok"
                      THEN [flow EXCEPT
                              !.newCardIds = Append(@, r.ret[1]),
                              !.toAdd = @ - 1,
                              !.pc = IF flow.toAdd = 1 THEN "recording"
                                     ELSE "adding"]
                      ELSE [flow EXCEPT !.pc = "failed"])

\* The recordTrade call behind the loop; its rejection is reported and
\* nothing else is done.
HandleTradeRecordTrade ==
  \E t \in PortfolioTimes :
    /\ flow.pc = "recording"
    /\ LET r == recordTradeTransaction(State, flow.caller, t,
                                       <<flow.card[1]>>, flow.newCardIds)
       IN  FlowCommit([Call("recordTradeTransaction", flow.caller) EXCEPT
                         !.given = <<flow.card[1]>>,
                         !.received = flow.newCardIds],
                      r, t,
                      [flow EXCEPT !.pc = IF r.result = "ok" THEN "done"
                                          ELSE "failed"])

TradeFlowAddCard ==
  \E caller \in PortfolioCallers, attrs \in TradeAttrs, t \in PortfolioTimes :
    Commit([Call("addCard", caller) EXCEPT !.attrs = Some(attrs)],
           addCard(State, caller, t, attrs, None), t,
           MaxPortfolioHist, MaxPortfolioCards)

TradeFlowMarkCardAsSold ==
  \E caller \in PortfolioCallers, cardId \in PortfolioCardIds,
     price \in SalePrices, date \in SaleDates, t \in PortfolioTimes :
    Commit([Call("markCardAsSold", caller) EXCEPT
              !.cardId = Some(cardId), !.price = Some(price), !.date = Some(date)],
           markCardAsSold(State, caller, t, cardId, price, date), t,
           MaxPortfolioHist, MaxPortfolioCards)

TradeFlowDeleteCard ==
  \E caller \in PortfolioCallers, cardId \in PortfolioCardIds,
     t \in PortfolioTimes :
    Commit([Call("deleteCard", caller) EXCEPT !.cardId = Some(cardId)],
           deleteCard(State, caller, t, cardId), t,
           MaxPortfolioHist, MaxPortfolioCards)

TradeFlowNext ==
  \/ HandleTradeStart
  \/ HandleTradeAddCard
  \/ HandleTradeRecordTrade
  \/ TradeFlowAddCard
  \/ TradeFlowMarkCardAsSold
  \/ TradeFlowDeleteCard

SpecTradeFlow == Init /\ [][TradeFlowNext]_vars

\* ------------------------------------------------- vocabulary of the claims
\* The card with id cardId in a list, as a set (empty when absent).
CardsWithId(list, cardId) == {i \in DOMAIN list : list[i].id = cardId}
Owns(caller, cardId) ==
  caller \in DOMAIN cards /\ CardsWithId(cards[caller], cardId) # {}
HistoryOf(h, user) == IF user \in DOMAIN h THEN h[user] ELSE <<>>


\* ==================================================================== C1
\* C1: in every step, a card that is tradedGiven before the step and still
\* in its owner's collection after it is still tradedGiven, unless the step
\* is revertTradeTransaction on that card, and then it is forSale.
C1_TradedGivenLeftOnlyByRevert ==
  [][ \A u \in DOMAIN cards : \A i \in DOMAIN cards[u] :
        cards[u][i].transactionType = "tradedGiven" =>
          \A j \in DOMAIN cards'[u] :
            cards'[u][j].id = cards[u][i].id =>
              IF /\ last'.op = "revertTradeTransaction"
                 /\ last'.caller = u
                 /\ last'.cardId = Some(cards[u][i].id)
              THEN cards'[u][j].transactionType = "forSale"
              ELSE cards'[u][j].transactionType = "tradedGiven" ]_vars

\* ==================================================================== C2
\* C2: after an accepted recordTradeTransaction(given, received), every card
\* of the caller whose id is in received is tradedReceived and carries the
\* trade reference {givenCards: given, receivedCards: received}.  (Stated for
\* calls that give at least one card, the calls the claim takes to succeed,
\* and for received cards that are not also among the given ones.)
C2_ReceivedCardsMarked ==
  (last.op = "recordTradeTransaction" /\ last.given # <<>>) =>
    \A i \in DOMAIN cards[last.caller] :
      cards[last.caller][i].id \in (Range(last.received) \ Range(last.given)) =>
        /\ cards[last.caller][i].transactionType = "tradedReceived"
        /\ cards[last.caller][i].tradeReference =
             Some([givenCards |-> last.given, receivedCards |-> last.received])

\* ==================================================================== C3
\* C3: recordTradeTransaction by a user with a given list holding at least
\* one id the caller owns and at least one it does not is accepted, and the
\* owned forSale cards of the list become tradedGiven.
C3_PartialGivenListAccepted ==
  \A caller \in Users, given \in IdLists, received \in ShortIdLists, t \in Times :
    ( /\ \E i \in DOMAIN given : Owns(caller, given[i])
      /\ \E i \in DOMAIN given : ~Owns(caller, given[i]) ) =>
      LET r == recordTradeTransaction(State, caller, t, given, received)
      IN  /\ r.result = "ok"
          /\ \A i \in DOMAIN cards[caller] :
               ( /\ cards[caller][i].id \in Range(given)
                 /\ cards[caller][i].transactionType = "forSale" ) =>
                 r.st.cards[caller][i].transactionType = "tradedGiven"

\* ==================================================================== C4
\* C4: recordTradeTransaction with a given list none of whose ids is a card
\* of the caller (the empty list included) is rejected and changes nothing.
C4_NoOwnedGivenRejected ==
  \A caller \in Principals, given \in IdLists, received \in ShortIdLists,
     t \in Times :
    (\A i \in DOMAIN given : ~Owns(caller, given[i])) =>
      LET r == recordTradeTransaction(State, caller, t, given, received)
      IN  /\ r.result # "ok"
          /\ r.st = State

\* ==================================================================== C5
\* The results of every update method on every input, at the current state.
AllResults ==
  UNION { {addCard(State, c, t, in[1], in[2]) : in \in AddCardInputs}
          \cup {updateSalePrice(State, c, t, id, p) : id \in CardIds, p \in SalePrices}
          \cup {updateCard(State, c, t, id, a) : id \in CardIds, a \in CardAttrs}
          \cup {deleteCard(State, c, t, id) : id \in CardIds}
          \cup {markCardAsSold(State, c, t, id, p, d) :
                  id \in CardIds, p \in SalePrices, d \in SaleDates}
          \cup {recordTradeTransaction(State, c, t, g, r) :
                  g \in IdLists, r \in ShortIdLists}
          \cup {revertTradeTransaction(State, c, t, id, g, <<>>) :
                  id \in CardIds, g \in ShortIdLists}
          \cup {backfillHistoryEntries(State, c, t)}
          : c \in Principals, t \in Times }

\* C5: a rejected call (caller without permission, card not owned or not
\* found, no valid given id) leaves every user's card list and history, the
\* id counter and the backfill markers as they were.
C5_RejectedCallsChangeNothing ==
  \A r \in AllResults : r.result # "ok" => r.st = State

\* A state with cards, history and a marker in which calls are rejected for
\* each reason: no permission, card not owned.
C5_Witness ==
  /\ nextCardId > 0
  /\ DOMAIN backfillMarker # {}
  /\ \E c \in Users : c \in DOMAIN cards /\ cards[c] # <<>>
  /\ \E c \in Users, id \in CardIds, t \in Times :
       /\ c \in DOMAIN cards /\ cards[c] # <<>>
       /\ deleteCard(State, c, t, id).result
            = "Unauthorized: Card does not belong to caller"
       /\ markCardAsSold(State, "mallory", t, id, 150, 7).result
            = "Unauthorized: Only users can sell cards"

\* ==================================================================== C6
\* C6: updateCard, deleteCard, updateSalePrice and markCardAsSold called by a
\* user with a card id absent from the caller's collection fail with the
\* NotFound kind (not the Unauthorized kind) and change nothing.
C6_AbsentIdFailsNotFound ==
  \A c \in Users, id \in CardIds, t \in Times :
    ~Owns(c, id) =>
      \A r \in {updateCard(State, c, t, id, a) : a \in CardAttrs}
               \cup {deleteCard(State, c, t, id)}
               \cup {updateSalePrice(State, c, t, id, p) : p \in SalePrices}
               \cup {markCardAsSold(State, c, t, id, p, d) :
                       p \in SalePrices, d \in SaleDates} :
        /\ ErrorKind(r.result) = "NotFound"
        /\ r.st = State

\* ==================================================================== C7
\* The ids issued so far: those of the cards held and those named by the
\* addCard entries of the histories.
HeldIds == UNION {{cards[u][i].id : i \in DOMAIN cards[u]} : u \in DOMAIN cards}
IssuedIds ==
  HeldIds
  \cup UNION {{changeHistory[u][k].cardIds[1] :
                 k \in {x \in DOMAIN changeHistory[u] :
                          changeHistory[u][x].action = "addCard"}}
              : u \in DOMAIN changeHistory}
NoSharedIds ==
  \A u \in DOMAIN cards, v \in DOMAIN cards :
    \A i \in DOMAIN cards[u], j \in DOMAIN cards[v] :
      (u # v \/ i # j) => cards[u][i].id # cards[v][j].id

\* C7: card ids are unique over all collections and never reused: no two
\* cards held share an id; an accepted addCard returns an id above every id
\* issued before and raises the counter past it; a rejected addCard and
\* every other call leave the counter alone.
C7_IdsUniqueNeverReused ==
  /\ NoSharedIds
  /\ \A c \in Principals, t \in Times :
       /\ \A a \in CardAttrs, im \in Images :
            LET r == addCard(State, c, t, a, im)
            IN  IF r.result = "ok"
                THEN /\ \A i \in IssuedIds : i < r.ret[1]
                     /\ r.st.nextCardId > r.ret[1]
                ELSE r.st.nextCardId = nextCardId
       /\ \A r \in {deleteCard(State, c, t, id) : id \in CardIds}
                   \cup {updateCard(State, c, t, id, a) :
                           id \in CardIds, a \in CardAttrs}
                   \cup {markCardAsSold(State, c, t, id, p, d) :
                           id \in CardIds, p \in SalePrices, d \in SaleDates}
                   \cup {updateSalePrice(State, c, t, id, p) :
                           id \in CardIds, p \in SalePrices}
                   \cup {recordTradeTransaction(State, c, t, g, rc) :
                           g \in IdLists, rc \in ShortIdLists}
                   \cup {revertTradeTransaction(State, c, t, id, g, <<>>) :
                           id \in CardIds, g \in ShortIdLists}
                   \cup {backfillHistoryEntries(State, c, t)} :
            r.st.nextCardId = nextCardId

\* A card was created and deleted, and a later addCard returned a larger id.
C7_Witness ==
  /\ last.op = "addCard"
  /\ \E u \in DOMAIN changeHistory : \E k \in DOMAIN changeHistory[u] :
       /\ changeHistory[u][k].action = "deleteCard"
       /\ changeHistory[u][k].cardIds[1] < last.ret[1]
       /\ changeHistory[u][k].cardIds[1] \notin HeldIds

\* ==================================================================== C8
\* C8: after an accepted addCard(attributes) returning id, the caller's
\* listing is the listing before the call followed by one new card: id as
\* returned, the supplied attributes, owner the caller, forSale, no sale
\* price, sale date or trade reference; no other listed card has that id.
C8_CreateAppendsNewCard ==
  \A c \in Users, a \in CardAttrs, im \in Images, t \in Times :
    LET r == addCard(State, c, t, a, im)
        before == getAllCardsForUser(State, c)
        after == getAllCardsForUser(r.st, c)
        expected == [id |-> r.ret[1],
                     name |-> a.name,
                     purchasePrice |-> a.purchasePrice,
                     discountPercent |-> a.discountPercent,
                     paymentMethod |-> a.paymentMethod,
                     image |-> im,
                     owner |-> c,
                     transactionType |-> "forSale",
                     salePrice |-> None,
                     saleDate |-> None,
                     tradeReference |-> None]
    IN  /\ r.result = "ok"
        /\ after.result = "ok"
        /\ after.cards = Append(before.cards, expected)
        /\ Cardinality(CardsWithId(after.cards, r.ret[1])) = 1

\* An addCard was accepted for a caller who already listed a card that is no
\* longer forSale.
C8_Witness ==
  /\ last.op = "addCard"
  /\ Len(cards[last.caller]) >= 2
  /\ cards[last.caller][1].transactionType # "forSale"
  /\ cards[last.caller][Len(cards[last.caller])].id = last.ret[1]

\* ==================================================================== C9
BackfilledSummaryHeads == {"Backfilled: Added card #", "Backfilled: Sold card #"}

\* C9: a backfill call by a user sets that user's marker, no call removes a
\* marker, and a backfill call by a user whose marker is set is accepted,
\* appends no entry and changes nothing, whatever cards the user holds.
C9_BackfillIdempotent ==
  /\ \A c \in Users, t \in Times :
       LET r == backfillHistoryEntries(State, c, t)
       IN  /\ r.result = "ok"
           /\ c \in DOMAIN r.st.backfillMarker
           /\ c \in DOMAIN backfillMarker => r.st = State
  /\ \A r \in AllResults : DOMAIN backfillMarker \subseteq DOMAIN r.st.backfillMarker

\* The latest accepted call is a backfill by a user who holds a forSale or
\* sold card and has no backfilled entry: the call was not the user's first
\* (the first found no such card) and it appended nothing.
C9_Witness ==
  /\ last.op = "backfillHistoryEntries"
  /\ last.caller \in DOMAIN cards
  /\ \E i \in DOMAIN cards[last.caller] :
       cards[last.caller][i].transactionType \in {"forSale", "sold"}
  /\ \A k \in DOMAIN HistoryOf(changeHistory, last.caller) :
       changeHistory[last.caller][k].summary[1] \notin BackfilledSummaryHeads

\* =================================================================== C10
\* C10: a user's first backfill call (the marker is not set) appends one
\* addCard entry for every card of the user, whatever its transactionType,
\* one markSold entry for every sold card, and nothing else.
C10_FirstBackfillEntries ==
  \A c \in Users, t \in Times :
    c \notin DOMAIN backfillMarker =>
      LET r == backfillHistoryEntries(State, c, t)
          before == HistoryOf(changeHistory, c)
          after == HistoryOf(r.st.changeHistory, c)
          appended == SubSeq(after, Len(before) + 1, Len(after))
          list == getAllCardsForUserInternal(State, c)
          sold == {i \in DOMAIN list : list[i].transactionType = "sold"}
          Count(action, id) ==
            Cardinality({k \in DOMAIN appended :
                           /\ appended[k].action = action
                           /\ appended[k].cardIds = <<id>>})
      IN  /\ r.result = "ok"
          /\ \A i \in DOMAIN list :
               /\ Count("addCard", list[i].id) = 1
               /\ Count("markSold", list[i].id) = (IF i \in sold THEN 1 ELSE 0)
          /\ Len(appended) = Len(list) + Cardinality(sold)

\* =================================================================== C11
IsPrefix(p, q) == Len(p) <= Len(q) /\ SubSeq(q, 1, Len(p)) = p

\* C11: the change history is append-only: whatever update method is called
\* (deleteCard and backfillHistoryEntries included), by whatever caller, every
\* user's history after the call starts with that user's history before it.
C11_HistoryAppendOnly ==
  \A r \in AllResults :
    \A u \in DOMAIN changeHistory :
      IsPrefix(changeHistory[u], HistoryOf(r.st.changeHistory, u))

\* A deleteCard was accepted for a caller with two earlier entries, and its
\* entry is the third.
C11_Witness ==
  /\ last.op = "deleteCard"
  /\ Len(HistoryOf(changeHistory, last.caller)) = 3
  /\ changeHistory[last.caller][1].action = "addCard"
  /\ changeHistory[last.caller][3].action = "deleteCard"

\* =================================================================== C13
\* The accepted calls of a user on the current state, as (result, action kind
\* of the method) pairs.
AcceptedWithKind(c, t) ==
  { p \in
      {<<addCard(State, c, t, in[1], in[2]), "addCard">> : in \in AddCardInputs}
      \cup {<<updateCard(State, c, t, id, a), "editCard">> :
              id \in CardIds, a \in CardAttrs}
      \cup {<<deleteCard(State, c, t, id), "deleteCard">> : id \in CardIds}
      \cup {<<updateSalePrice(State, c, t, id, sp), "updateSalePrice">> :
              id \in CardIds, sp \in SalePrices}
      \cup {<<markCardAsSold(State, c, t, id, sp, d), "markSold">> :
              id \in CardIds, sp \in SalePrices, d \in SaleDates}
      \cup {<<recordTradeTransaction(State, c, t, g, rc), "trade">> :
              g \in IdLists, rc \in ShortIdLists}
      \cup {<<revertTradeTransaction(State, c, t, id, g, <<>>), "revertTrade">> :
              id \in CardIds, g \in ShortIdLists}
    : p[1].result = "ok" }

\* C13: every accepted addCard, updateCard, deleteCard, updateSalePrice,
\* markCardAsSold, recordTradeTransaction and revertTradeTransaction call
\* appends exactly one entry to the caller's history, of action kind addCard,
\* editCard, deleteCard, updateSalePrice, markSold, trade and revertTrade
\* respectively, stamped with the time of the call.  (The read methods are
\* queries: they return a value and have no state after the call.)
C13_OneEntryPerAcceptedCall ==
  \A c \in Principals, t \in Times :
    \A p \in AcceptedWithKind(c, t) :
      LET before == HistoryOf(changeHistory, c)
          after == HistoryOf(p[1].st.changeHistory, c)
      IN  /\ Len(after) = Len(before) + 1
          /\ SubSeq(after, 1, Len(before)) = before
          /\ after[Len(after)].action = p[2]
          /\ after[Len(after)].timestamp = t

\* A card was created, traded away and the trade reverted: the caller's
\* history is the three entries of these calls.
C13_Witness ==
  /\ last.op = "revertTradeTransaction"
  /\ Len(HistoryOf(changeHistory, last.caller)) = 3
  /\ changeHistory[last.caller][1].action = "addCard"
  /\ changeHistory[last.caller][2].action = "trade"
  /\ changeHistory[last.caller][3].action = "revertTrade"

\* =================================================================== C12
\* Largest limit and offset passed to getChangeHistory.
MaxPage == 4
PageArgs == 0 .. MaxPage

\* The entries of a history ordered by timestamp descending, entries of equal
\* timestamp in insertion order: entry i stands behind exactly the entries
\* that are newer, or as old and inserted before it.
Before(h, i) ==
  {j \in DOMAIN h : \/ h[j].timestamp > h[i].timestamp
                    \/ (h[j].timestamp = h[i].timestamp /\ j < i)}
NewestFirst(h) ==
  [k \in DOMAIN h |-> h[CHOOSE i \in DOMAIN h : Cardinality(Before(h, i)) = k - 1]]

\* The pages at offsets 0, limit, 2*limit, ... of a user, one behind the other.
RECURSIVE PagesFrom(_, _, _, _)
PagesFrom(c, limit, offset, n) ==
  IF offset >= n THEN <<>>
  ELSE getChangeHistory(State, c, limit, offset).entries
         \o PagesFrom(c, limit, offset + limit, n)

\* C12: getChangeHistory(limit, offset) of a user with n entries returns the
\* entries at positions offset .. min(offset + limit, n) - 1 of the history
\* ordered newest first (ties in insertion order), the empty list when
\* offset >= n; the pages at offsets 0, limit, 2*limit, ... are together the
\* whole ordered history, every entry once.
C12_HistoryPages ==
  \A c \in Users :
    LET h == HistoryOf(changeHistory, c)
        n == Len(h)
        ordered == NewestFirst(h)
    IN  /\ \A limit \in PageArgs, offset \in PageArgs :
             LET page == getChangeHistory(State, c, limit, offset)
                 end == NatMin(offset + limit, n)
             IN  /\ page.result = "ok"
                 /\ page.entries =
                      IF offset >= n THEN <<>>
                      ELSE [k \in 1 .. (end - offset) |-> ordered[offset + k]]
        /\ \A limit \in PageArgs \ {0} : PagesFrom(c, limit, 0, n) = ordered

\* A user has three entries, the first two of one timestamp and the third
\* newer: the page of limit 2 at offset 1 is the first two in insertion order.
C12_Witness ==
  \E c \in Users :
    /\ Len(HistoryOf(changeHistory, c)) = 3
    /\ changeHistory[c][1].timestamp = changeHistory[c][2].timestamp
    /\ changeHistory[c][2].timestamp < changeHistory[c][3].timestamp
    /\ changeHistory[c][1] # changeHistory[c][2]
    /\ getChangeHistory(State, c, 2, 1).entries
         = <<changeHistory[c][1], changeHistory[c][2]>>

\* =================================================================== C14
\* C14: in the portfolio snapshot of every user, at every reachable state,
\* totalInvested is the Float sum of investmentTotals.totalCashInvested and
\* investmentTotals.totalEthInvested.
C14_InvestedIsCashPlusEth ==
  \A c \in Users :
    LET snapshot == getPortfolioSnapshot(State, c)
    IN  /\ snapshot.result = "ok"
        /\ snapshot.totalInvested
             = FloatAdd(snapshot.investmentTotals.totalCashInvested,
                        snapshot.investmentTotals.totalEthInvested)

\* =================================================================== C15
\* The Float sum of a sequence of Floats, added from the first to the last.
RECURSIVE FloatSum(_)
FloatSum(xs) ==
  IF xs = <<>> THEN 0
  ELSE FloatAdd(FloatSum(SubSeq(xs, 1, Len(xs) - 1)), xs[Len(xs)])

PaidInMoney(card) == card.paymentMethod \in {"cash", "eth"}
\* purchasePrice * (1 - discountPercent / 100) summed over the cash and eth
\* cards of a list, in list order.
InvestedIn(list) ==
  LET paid == SelectSeq(list, PaidInMoney)
  IN  FloatSum([k \in DOMAIN paid |->
                  FloatMul(FloatOf(paid[k].purchasePrice),
                           FloatSub(FloatOf(1),
                                    FloatDiv(FloatOf(paid[k].discountPercent),
                                             FloatOf(100))))])

\* C15: totalInvested (of calculateTotalInvested and of the snapshot) is the
\* sum of the discounted purchase prices of exactly the caller's cash and eth
\* cards, whatever their transactionType; an accepted addCard of an essence
\* or trade card, and an accepted markCardAsSold or deleteCard of one, leave
\* totalInvested as it was.
C15_InvestedCountsCashAndEth ==
  \A c \in Users :
    LET list == getAllCardsForUserInternal(State, c)
        invested == calculateTotalInvested(State, c)
        Same(r) == r.result = "ok" =>
                     calculateTotalInvested(r.st, c).value = invested.value
    IN  /\ invested.result = "ok"
        /\ invested.value = InvestedIn(list)
        /\ getPortfolioSnapshot(State, c).totalInvested = InvestedIn(list)
        /\ \A a \in PortfolioAttrs :
             ~PaidInMoney(a) => Same(addCard(State, c, now, a, None))
        /\ \A i \in DOMAIN list :
             ~PaidInMoney(list[i]) =>
               /\ Same(deleteCard(State, c, now, list[i].id))
               /\ \A sp \in SalePrices, d \in SaleDates :
                    Same(markCardAsSold(State, c, now, list[i].id, sp, d))

\* A user holds a cash card that is no longer forSale and an essence card of
\* purchase price 999 that was just sold: totalInvested is the 80 of the
\* cash card (100 less 20 percent).
C15_Witness ==
  /\ last.op = "markCardAsSold"
  /\ Len(cards[last.caller]) = 2
  /\ \E i, j \in DOMAIN cards[last.caller] :
       /\ cards[last.caller][i].paymentMethod = "cash"
       /\ cards[last.caller][i].purchasePrice = 100
       /\ cards[last.caller][i].transactionType = "tradedGiven"
       /\ cards[last.caller][j].paymentMethod = "essence"
       /\ cards[last.caller][j].purchasePrice = 999
       /\ cards[last.caller][j].transactionType = "sold"
       /\ cards[last.caller][j].id = last.cardId[1]
  /\ calculateTotalInvested(State, last.caller).value = FloatOf(80)

\* =================================================================== C16
SoldWithPrice(card) == card.transactionType = "sold" /\ card.salePrice # None
\* salePrice summed over the sold cards of a list that have one, in list order.
ReturnsIn(list) ==
  LET sold == SelectSeq(list, SoldWithPrice)
  IN  FloatSum([k \in DOMAIN sold |-> FloatOf(sold[k].salePrice[1])])

\* C16: totalReturns (of calculateTotalReturns and of the snapshot) is the
\* sum of salePrice over exactly the caller's sold cards that have one; an
\* accepted updateSalePrice on a card that is not sold leaves totalReturns as
\* it was; totalBalance (of calculateTotalBalance and of the snapshot) is
\* totalReturns minus totalInvested.
C16_ReturnsCountSoldCards ==
  \A c \in Users :
    LET list == getAllCardsForUserInternal(State, c)
        returns == calculateTotalReturns(State, c)
        snapshot == getPortfolioSnapshot(State, c)
    IN  /\ returns.result = "ok"
        /\ returns.value = ReturnsIn(list)
        /\ snapshot.totalReturns = ReturnsIn(list)
        /\ \A i \in DOMAIN list, sp \in SalePrices :
             list[i].transactionType # "sold" =>
               LET r == updateSalePrice(State, c, now, list[i].id, sp)
               IN  /\ r.result = "ok"
                   /\ calculateTotalReturns(r.st, c).value = returns.value
        /\ calculateTotalBalance(State, c).value
             = FloatSub(returns.value, calculateTotalInvested(State, c).value)
        /\ snapshot.totalBalance
             = FloatSub(snapshot.totalReturns, snapshot.totalInvested)

\* A user holds a sold card and a card that is not sold and was just given a
\* sale price: totalReturns is the sale price of the sold card alone.
C16_Witness ==
  /\ last.op = "updateSalePrice"
  /\ \E i, j \in DOMAIN cards[last.caller] :
       /\ cards[last.caller][i].transactionType = "sold"
       /\ cards[last.caller][i].salePrice = Some(150)
       /\ cards[last.caller][j].transactionType = "forSale"
       /\ cards[last.caller][j].salePrice = Some(150)
       /\ cards[last.caller][j].id = last.cardId[1]
  /\ Cardinality({i \in DOMAIN cards[last.caller] :
                    cards[last.caller][i].transactionType = "sold"}) = 1
  /\ calculateTotalReturns(State, last.caller).value = FloatOf(150)
  /\ calculateTotalInvested(State, last.caller).value # 0

\* =================================================================== C17
\* The balance of the sold cards of a list, card by card in list order: each
\* adds its salePrice (nothing when absent) and takes off its discounted
\* purchase price, an essence card taking off nothing.
RECURSIVE SoldBalanceIn(_)
SoldBalanceIn(list) ==
  IF list = <<>> THEN 0
  ELSE LET card == list[Len(list)]
           sofar == SoldBalanceIn(SubSeq(list, 1, Len(list) - 1))
           price == IF card.salePrice = None THEN 0
                    ELSE FloatOf(card.salePrice[1])
           cost == IF card.paymentMethod = "essence" THEN 0
                   ELSE FloatMul(FloatOf(card.purchasePrice),
                                 FloatSub(FloatOf(1),
                                          FloatDiv(FloatOf(card.discountPercent),
                                                   FloatOf(100))))
       IN  IF card.transactionType = "sold"
           THEN FloatSub(FloatAdd(sofar, price), cost)
           ELSE sofar

\* C17: getSoldCardBalance is, over exactly the caller's sold cards, the
\* salePrice (0 when absent) less the discounted purchase price, the cost of
\* an essence card being 0; cards that are not sold add nothing; an accepted
\* markCardAsSold of an essence card raises the balance by exactly the sale
\* price, whatever purchasePrice the card carries.
C17_SoldBalanceSkipsEssenceCost ==
  \A c \in Users :
    LET list == getAllCardsForUserInternal(State, c)
        balance == getSoldCardBalance(State, c)
    IN  /\ balance.result = "ok"
        /\ balance.value = SoldBalanceIn(list)
        /\ \A i \in DOMAIN list, sp \in SalePrices, d \in SaleDates :
             ( /\ list[i].paymentMethod = "essence"
               /\ list[i].transactionType # "sold" ) =>
               LET r == markCardAsSold(State, c, now, list[i].id, sp, d)
               IN  /\ r.result = "ok"
                   /\ getSoldCardBalance(r.st, c).value
                        = FloatAdd(balance.value, FloatOf(sp))

\* C17 as the code has it: getSoldCardBalance is accumulated over the
\* caller's cards in list order, a sold card adding its salePrice (nothing
\* when absent) and then taking off its discounted purchase price unless it
\* is an essence card, every step rounded; cards that are not sold add
\* nothing.  An accepted markCardAsSold of an essence card makes the card add
\* its sale price and take off nothing at its place in the list, whatever
\* purchasePrice it carries: the balance is the balance before plus the sale
\* price when the card is the last of the list.
C17_SoldBalanceInListOrder ==
  \A c \in Users :
    LET list == getAllCardsForUserInternal(State, c)
        balance == getSoldCardBalance(State, c)
    IN  /\ balance.result = "ok"
        /\ balance.value = SoldBalanceIn(list)
        /\ \A i \in DOMAIN list, sp \in SalePrices, d \in SaleDates :
             ( /\ list[i].paymentMethod = "essence"
               /\ list[i].transactionType # "sold" ) =>
               LET r == markCardAsSold(State, c, now, list[i].id, sp, d)
                   sold == [list EXCEPT ![i] =
                              [@ EXCEPT !.transactionType = "sold",
                                        !.salePrice = Some(sp),
                                        !.saleDate = Some(d)]]
               IN  /\ r.result = "ok"
                   /\ getSoldCardBalance(r.st, c).value = SoldBalanceIn(sold)
                   /\ i = Len(list) =>
                        getSoldCardBalance(r.st, c).value
                          = FloatAdd(balance.value, FloatOf(sp))

\* A user holds a sold cash card, a card that is not sold, and an essence
\* card of purchase price 999 that was just sold for 150: the balance is
\* 150 - 80 of the cash card plus the 150 of the essence card.
C17_Witness ==
  /\ last.op = "markCardAsSold"
  /\ Len(cards[last.caller]) = 3
  /\ \E i, j, k \in DOMAIN cards[last.caller] :
       /\ cards[last.caller][i].paymentMethod = "cash"
       /\ cards[last.caller][i].purchasePrice = 100
       /\ cards[last.caller][i].transactionType = "sold"
       /\ cards[last.caller][j].paymentMethod = "essence"
       /\ cards[last.caller][j].purchasePrice = 999
       /\ cards[last.caller][j].transactionType = "sold"
       /\ cards[last.caller][j].id = last.cardId[1]
       /\ cards[last.caller][k].transactionType # "sold"
  /\ getSoldCardBalance(State, last.caller).value = FloatOf(220)

\* =================================================================== C18
\* The results of every update method called by c at time t on every input.
UpdateResultsOf(c, t) ==
  {addCard(State, c, t, in[1], in[2]) : in \in AddCardInputs}
  \cup {updateSalePrice(State, c, t, id, sp) : id \in CardIds, sp \in SalePrices}
  \cup {updateCard(State, c, t, id, a) : id \in CardIds, a \in CardAttrs}
  \cup {deleteCard(State, c, t, id) : id \in CardIds}
  \cup {markCardAsSold(State, c, t, id, sp, d) :
          id \in CardIds, sp \in SalePrices, d \in SaleDates}
  \cup {recordTradeTransaction(State, c, t, g, rc) :
          g \in IdLists, rc \in ShortIdLists}
  \cup {revertTradeTransaction(State, c, t, id, g, <<>>) :
          id \in CardIds, g \in ShortIdLists}
  \cup {backfillHistoryEntries(State, c, t)}

\* The trap messages of the read methods for a caller without permission.
QueryUnauthorizedMessages ==
  { "Unauthorized: Only users can access their cards",
    "Unauthorized: Only users can get portfolio data",
    "Unauthorized: Only registered users can access balances",
    "Unauthorized: Must be logged in for change history" }

\* C18: for a principal without the user permission, addCard, updateCard,
\* deleteCard, updateSalePrice, markCardAsSold, recordTradeTransaction,
\* revertTradeTransaction and backfillHistoryEntries are rejected as
\* Unauthorized and change no state, and getAllCardsForUser,
\* getPortfolioSnapshot, getSoldCardBalance and getChangeHistory are rejected
\* as Unauthorized and return nothing.
C18_NoPermissionRejected ==
  \A c \in Principals :
    ~hasPermission(c) =>
      /\ \A t \in Times : \A r \in UpdateResultsOf(c, t) :
           /\ ErrorKind(r.result) = "Unauthorized"
           /\ r.st = State
      /\ \A q \in {getAllCardsForUser(State, c).result,
                    getPortfolioSnapshot(State, c).result,
                    getSoldCardBalance(State, c).result}
                   \cup {getChangeHistory(State, c, limit, offset).result :
                           limit \in PageArgs, offset \in PageArgs} :
           q \in QueryUnauthorizedMessages

\* Both users hold a card and a history, and a principal without permission
\* names a card that exists: its deleteCard and its getChangeHistory are
\* rejected.
C18_Witness ==
  /\ \A u \in Users : /\ u \in DOMAIN cards /\ cards[u] # <<>>
                       /\ u \in DOMAIN changeHistory
  /\ \E c \in Principals \ Users, id \in HeldIds, t \in Times :
       /\ deleteCard(State, c, t, id).result
            = "Unauthorized: Only users can delete cards"
       /\ getChangeHistory(State, c, 1, 0).result
            = "Unauthorized: Must be logged in for change history"

\* =================================================================== C19
Lookup(m, k) == IF k \in DOMAIN m THEN Some(m[k]) ELSE None
\* What the actor stores for principal b.
PartitionOf(s, b) ==
  [cards |-> Lookup(s.cards, b), history |-> Lookup(s.changeHistory, b),
   profile |-> Lookup(s.userProfiles, b), marker |-> Lookup(s.backfillMarker, b)]

\* C19: whatever update method principal a calls, on whatever input, the
\* card list, history, profile and backfill marker stored for every other
\* principal b are unchanged; and updateCard, updateSalePrice, markCardAsSold,
\* deleteCard and revertTradeTransaction with the id of a card in b's
\* collection, and recordTradeTransaction giving such an id, are rejected.
C19_PartitionedByCaller ==
  \A a \in Principals, t \in PartitionTimes :
    /\ \A r \in UpdateResultsOf(a, t)
                 \cup {saveCallerUserProfile(State, a, p) : p \in Profiles} :
         \A b \in Principals \ {a} : PartitionOf(r.st, b) = PartitionOf(State, b)
    /\ \A b \in Users \ {a}, id \in CardIds :
         Owns(b, id) =>
           \A r \in {updateCard(State, a, t, id, at) : at \in CardAttrs}
                    \cup {updateSalePrice(State, a, t, id, sp) : sp \in SalePrices}
                    \cup {markCardAsSold(State, a, t, id, sp, d) :
                            sp \in SalePrices, d \in SaleDates}
                    \cup {deleteCard(State, a, t, id)}
                    \cup {revertTradeTransaction(State, a, t, id, g, <<>>) :
                            g \in ShortIdLists}
                    \cup {recordTradeTransaction(State, a, t, g, rc) :
                            g \in {x \in IdLists : id \in Range(x)},
                            rc \in ShortIdLists} :
             ErrorKind(r.result) = "Unauthorized" /\ r.st = State

\* One user has a card, a history, a profile and a marker; another user, who
\* holds a card too, has just saved a different profile, and that user's
\* deleteCard of the first user's card is rejected.
C19_Witness ==
  /\ last.op = "saveCallerUserProfile"
  /\ \E b \in Users \ {last.caller} :
       /\ Owns(b, 0)
       /\ Owns(last.caller, 1)
       /\ b \in DOMAIN changeHistory
       /\ b \in DOMAIN backfillMarker
       /\ b \in DOMAIN userProfiles
       /\ userProfiles[b] # userProfiles[last.caller]
       /\ deleteCard(State, last.caller, now, 0).result
            = "Unauthorized: Card does not belong to caller"

\* =================================================================== C20
\* C20: revertTradeTransaction(id, ref) by a user on a card of the user's
\* collection that is tradedGiven is accepted and the user's card list after
\* it is the list before it with that one card forSale and without
\* tradeReference: every other card is unchanged, the cards named in ref as
\* received and the other cards given in the same trade included.
C20_RevertChangesOneCard ==
  \A c \in Users, given \in TradeGivenLists, received \in TradeReceivedLists :
    \A i \in DOMAIN getAllCardsForUserInternal(State, c) :
      cards[c][i].transactionType = "tradedGiven" =>
        LET r == revertTradeTransaction(State, c, now, cards[c][i].id,
                                        given, received)
        IN  /\ r.result = "ok"
            /\ r.st.cards[c]
                 = [cards[c] EXCEPT ![i] =
                      [@ EXCEPT !.transactionType = "forSale",
                                !.tradeReference = None]]

\* Two cards were given in one trade that names a third card of the caller
\* as received, and the trade of one of the two was reverted with that
\* trade's reference: the other is still tradedGiven with the reference.
C20_Witness ==
  /\ last.op = "revertTradeTransaction"
  /\ Len(last.given) = 2
  /\ Len(last.received) = 1
  /\ \E i, j, k \in DOMAIN cards[last.caller] :
       /\ cards[last.caller][i].id = last.cardId[1]
       /\ cards[last.caller][i].transactionType = "forSale"
       /\ cards[last.caller][i].tradeReference = None
       /\ cards[last.caller][i].id \in Range(last.given)
       /\ j # i
       /\ cards[last.caller][j].id \in Range(last.given)
       /\ cards[last.caller][j].transactionType = "tradedGiven"
       /\ cards[last.caller][j].tradeReference
            = Some([givenCards |-> last.given, receivedCards |-> last.received])
       /\ cards[last.caller][k].id \in Range(last.received)
       /\ k \notin {i, j}

\* =================================================================== C21
\* The ids a user's deleteCard entries name.
DeletedIds(u) ==
  LET h == HistoryOf(changeHistory, u)
  IN  UNION {Range(h[k].cardIds) :
               k \in {x \in DOMAIN h : h[x].action = "deleteCard"}}
IdsOf(list) == {list[i].id : i \in DOMAIN list}

\* C21: an accepted deleteCard(id) leaves the caller's listing (and the
\* allCards of the caller's snapshot) as it was before the call without the
\* card of that id, the other cards unchanged and in the same order; and at
\* every later state, whatever calls followed, no card of an id the caller
\* deleted is in the caller's listing or snapshot, the id lying below the
\* counter addCard takes new ids from.
C21_DeletedCardGone ==
  /\ \A c \in Users, id \in CardIds, t \in Times :
       LET r == deleteCard(State, c, t, id)
           before == getAllCardsForUserInternal(State, c)
           NotIt(card) == card.id # id
       IN  r.result = "ok" =>
             /\ getAllCardsForUser(r.st, c).cards = SelectSeq(before, NotIt)
             /\ getPortfolioSnapshot(r.st, c).allCards = SelectSeq(before, NotIt)
             /\ Len(SelectSeq(before, NotIt)) = Len(before) - 1
  /\ \A u \in Users :
       /\ DeletedIds(u) \cap IdsOf(getAllCardsForUser(State, u).cards) = {}
       /\ DeletedIds(u) \cap IdsOf(getPortfolioSnapshot(State, u).allCards) = {}
       /\ \A id \in DeletedIds(u) : id < nextCardId

\* A user created two cards and deleted the first: the listing is the second
\* card alone, as it was.
C21_Witness ==
  /\ last.op = "deleteCard"
  /\ last.cardId = Some(0)
  /\ 0 \in DeletedIds(last.caller)
  /\ Len(getAllCardsForUser(State, last.caller).cards) = 1
  /\ getAllCardsForUser(State, last.caller).cards[1].id = 1
  /\ getAllCardsForUser(State, last.caller).cards[1].transactionType = "forSale"

\* =================================================================== C22
\* The given lists of the trades specification, and those naming one id twice.
GivenListsWithRepeats ==
  TradeGivenLists \cup {<<i, i>> : i \in PortfolioCardIds}

\* C22: an accepted recordTradeTransaction(given, received) leaves the
\* caller's list as it was except for the cards whose id is in given and whose
\* transactionType is forSale: each of these is the card it was with
\* transactionType tradedGiven and tradeReference {givenCards: given,
\* receivedCards: received}.  A given card that is sold or tradedGiven (or
\* tradedReceived) keeps its state and reference, and no card outside given
\* changes.
C22_TradeMarksGivenForSale ==
  \A c \in Users, given \in GivenListsWithRepeats,
     received \in TradeReceivedLists :
    LET r == recordTradeTransaction(State, c, now, given, received)
        before == getAllCardsForUserInternal(State, c)
        after == getAllCardsForUserInternal(r.st, c)
    IN  r.result = "ok" =>
          /\ Len(after) = Len(before)
          /\ \A i \in DOMAIN before :
               after[i] =
                 IF /\ before[i].id \in Range(given)
                    /\ before[i].transactionType = "forSale"
                 THEN [before[i] EXCEPT
                         !.transactionType = "tradedGiven",
                         !.tradeReference =
                           Some([givenCards |-> given, receivedCards |-> received])]
                 ELSE before[i]

\* The latest trade named a sold card and a forSale card as
\* given and a third card as received: the sold card is sold without
\* reference, the forSale card is tradedGiven with the reference of the call,
\* and the received card is as it was.
C22_Witness ==
  /\ last.op = "recordTradeTransaction"
  /\ Len(last.given) = 2
  /\ Len(last.received) = 1
  /\ \E i, j, k \in DOMAIN cards[last.caller] :
       /\ cards[last.caller][i].id = last.given[1]
       /\ cards[last.caller][i].transactionType = "sold"
       /\ cards[last.caller][i].tradeReference = None
       /\ cards[last.caller][j].id = last.given[2]
       /\ cards[last.caller][j].transactionType = "tradedGiven"
       /\ cards[last.caller][j].tradeReference
            = Some([givenCards |-> last.given, receivedCards |-> last.received])
       /\ cards[last.caller][k].id = last.received[1]
       /\ cards[last.caller][k].transactionType = "forSale"
       /\ cards[last.caller][k].tradeReference = None

\* =================================================================== C23
\* The entries a result appends to the history of user c.
AppendedBy(r, c) ==
  SubSeq(HistoryOf(r.st.changeHistory, c),
         Len(HistoryOf(changeHistory, c)) + 1,
         Len(HistoryOf(r.st.changeHistory, c)))

\* C23: every recordTradeTransaction call that appends a trade entry changed
\* at least one card of the caller from forSale to tradedGiven, and every
\* revertTradeTransaction call that appends a revertTrade entry changed the
\* card it names from tradedGiven to forSale.
C23_EntriesFollowTransitions ==
  \A c \in Users, t \in Times :
    LET before == getAllCardsForUserInternal(State, c)
    IN  /\ \A g \in IdLists, rc \in ShortIdLists :
             LET r == recordTradeTransaction(State, c, t, g, rc)
             IN  (\E k \in DOMAIN AppendedBy(r, c) :
                    AppendedBy(r, c)[k].action = "trade") =>
                   \E i \in DOMAIN before :
                     /\ before[i].transactionType = "forSale"
                     /\ r.st.cards[c][i].transactionType = "tradedGiven"
        /\ \A id \in CardIds, g \in ShortIdLists :
             LET r == revertTradeTransaction(State, c, t, id, g, <<>>)
             IN  (\E k \in DOMAIN AppendedBy(r, c) :
                    AppendedBy(r, c)[k].action = "revertTrade") =>
                   \E i \in DOMAIN before :
                     /\ before[i].id = id
                     /\ before[i].transactionType = "tradedGiven"
                     /\ r.st.cards[c][i].transactionType = "forSale"

\* =================================================================== C24
\* The fields of a card that updateCard and updateSalePrice must keep.
SameIdentityAndState(a, b) ==
  /\ a.id = b.id
  /\ a.owner = b.owner
  /\ a.transactionType = b.transactionType
  /\ a.tradeReference = b.tradeReference

\* C24: an accepted updateCard(id, attributes) or updateSalePrice(id, price)
\* changes no card's id, owner, transactionType or tradeReference; updateCard
\* gives the card of that id the attributes and keeps its salePrice, saleDate
\* and image; updateSalePrice changes nothing of it but the salePrice; both
\* leave the caller's other cards and the cards of every other user as they
\* were.
C24_UpdatesKeepIdentityAndState ==
  \A c \in Users, id \in CardIds, t \in Times :
    LET before == getAllCardsForUserInternal(State, c)
        Others(r) ==
          /\ Len(r.st.cards[c]) = Len(before)
          /\ \A i \in DOMAIN before :
               /\ SameIdentityAndState(r.st.cards[c][i], before[i])
               /\ before[i].id # id => r.st.cards[c][i] = before[i]
          /\ \A u \in DOMAIN cards \ {c} : r.st.cards[u] = cards[u]
          /\ DOMAIN r.st.cards = DOMAIN cards
    IN  /\ \A a \in CardAttrs :
             LET r == updateCard(State, c, t, id, a)
             IN  r.result = "ok" =>
                   /\ Others(r)
                   /\ \A i \in DOMAIN before :
                        before[i].id = id =>
                          /\ r.st.cards[c][i].salePrice = before[i].salePrice
                          /\ r.st.cards[c][i].saleDate = before[i].saleDate
                          /\ r.st.cards[c][i].image = before[i].image
                          /\ r.st.cards[c][i].name = a.name
                          /\ r.st.cards[c][i].purchasePrice = a.purchasePrice
                          /\ r.st.cards[c][i].discountPercent = a.discountPercent
                          /\ r.st.cards[c][i].paymentMethod = a.paymentMethod
        /\ \A sp \in SalePrices :
             LET r == updateSalePrice(State, c, t, id, sp)
             IN  r.result = "ok" =>
                   /\ Others(r)
                   /\ \A i \in DOMAIN before :
                        before[i].id = id =>
                          r.st.cards[c][i]
                            = [before[i] EXCEPT !.salePrice = Some(sp)]

\* A card was created, sold, and then edited to other attributes: it is still
\* sold, with the sale price and the sale date of the sale.
C24_Witness ==
  /\ last.op = "updateCard"
  /\ \E i \in DOMAIN cards[last.caller] :
       /\ cards[last.caller][i].id = last.cardId[1]
       /\ cards[last.caller][i].transactionType = "sold"
       /\ cards[last.caller][i].salePrice = Some(150)
       /\ cards[last.caller][i].saleDate = Some(7)
       /\ cards[last.caller][i].name = last.attrs[1].name
       /\ changeHistory[last.caller][1].action = "addCard"
       /\ changeHistory[last.caller][1].cardIds = <<last.cardId[1]>>
       /\ changeHistory[last.caller][1].summary[2] # last.attrs[1].name

\* =================================================================== C25
\* The sold cards of user u, as indices of the user's list.
SoldCardsOf(u) ==
  {i \in DOMAIN getAllCardsForUserInternal(State, u) :
     cards[u][i].transactionType = "sold"}

\* C25: sold is terminal.  Whatever update method is called, by whatever
\* principal and on whatever input, a card that is sold before the call is
\* sold after it when it is still in its owner's collection; and only an
\* accepted deleteCard of its id by its owner takes it out of the collection:
\* updateCard, updateSalePrice, markCardAsSold, recordTradeTransaction and
\* revertTradeTransaction (and addCard and backfillHistoryEntries) keep it
\* there, sold.
C25_SoldIsTerminal ==
  \A u \in Users : \A i \in SoldCardsOf(u) :
    \A c \in Principals, t \in Times :
      /\ \A r \in UpdateResultsOf(c, t) :
           \A j \in DOMAIN getAllCardsForUserInternal(r.st, u) :
             r.st.cards[u][j].id = cards[u][i].id =>
               r.st.cards[u][j].transactionType = "sold"
      /\ \A r \in UpdateResultsOf(c, t)
                   \ {deleteCard(State, c, t, cards[u][i].id)} :
           \E j \in DOMAIN getAllCardsForUserInternal(r.st, u) :
             r.st.cards[u][j].id = cards[u][i].id

\* A card was created and sold, and a revertTradeTransaction naming it was
\* accepted: the card is sold.
C25_Witness ==
  /\ last.op = "revertTradeTransaction"
  /\ \E i \in SoldCardsOf(last.caller) :
       /\ cards[last.caller][i].id = last.cardId[1]
       /\ cards[last.caller][i].salePrice = Some(150)
  /\ \E k \in DOMAIN changeHistory[last.caller] :
       /\ changeHistory[last.caller][k].action = "markSold"
       /\ changeHistory[last.caller][k].cardIds = <<last.cardId[1]>>

\* =================================================================== C26
\* C26: for every user and every card collection the user can hold, the
\* investmentTotals, totalInvested, totalReturns and totalBalance of
\* getPortfolioSnapshot are the results of calculateInvestmentTotals,
\* calculateTotalInvested, calculateTotalReturns and calculateTotalBalance on
\* the same collection, and its allCards is the result of getAllCardsForUser;
\* for a principal without permission all six are rejected.
C26_SnapshotEqualsAggregates ==
  \A c \in Principals :
    LET snapshot == getPortfolioSnapshot(State, c)
        totals == calculateInvestmentTotals(State, c)
    IN  IF hasPermission(c)
        THEN /\ snapshot.result = "ok"
             /\ totals.result = "ok"
             /\ snapshot.investmentTotals
                  = [totalCashInvested |-> totals.totalCashInvested,
                     totalEthInvested |-> totals.totalEthInvested]
             /\ calculateTotalInvested(State, c)
                  = [result |-> "ok", value |-> snapshot.totalInvested]
             /\ calculateTotalReturns(State, c)
                  = [result |-> "ok", value |-> snapshot.totalReturns]
             /\ calculateTotalBalance(State, c)
                  = [result |-> "ok", value |-> snapshot.totalBalance]
             /\ getAllCardsForUser(State, c)
                  = [result |-> "ok", cards |-> snapshot.allCards]
        ELSE \A q \in {snapshot.result, totals.result,
                        calculateTotalInvested(State, c).result,
                        calculateTotalReturns(State, c).result,
                        calculateTotalBalance(State, c).result,
                        getAllCardsForUser(State, c).result} :
               q # "ok"

\* A user holds three cash and eth cards, one of them sold, whose
\* totalInvested is not the rounded sum of the cash and eth totals, and the
\* snapshot reports a balance that is neither 0 nor the returns.
C26_Witness ==
  \E c \in Users :
    LET snapshot == getPortfolioSnapshot(State, c)
    IN  /\ Len(snapshot.allCards) = 3
        /\ \E i \in DOMAIN snapshot.allCards :
             snapshot.allCards[i].transactionType = "sold"
        /\ snapshot.totalReturns = FloatOf(150)
        /\ snapshot.totalInvested
             # FloatAdd(snapshot.investmentTotals.totalCashInvested,
                        snapshot.investmentTotals.totalEthInvested)
        /\ snapshot.totalBalance = calculateTotalBalance(State, c).value
        /\ snapshot.totalBalance < 0

\* =================================================================== C27
\* C27: in every reachable state, every card of every collection carries a
\* tradeReference exactly when its transactionType is tradedGiven or
\* tradedReceived.
C27_ReferenceIffTraded ==
  \A u \in DOMAIN cards : \A i \in DOMAIN cards[u] :
    (cards[u][i].tradeReference # None)
      <=> (cards[u][i].transactionType \in {"tradedGiven", "tradedReceived"})

\* =================================================================== C28
\* C28: every entry an update method appends to the history of its caller
\* names only ids of cards in the caller's collection after the call (before
\* the call for a deleteCard entry), and so no id of another user's card and
\* no id that was never allocated.
C28_EntriesNameOwnCards ==
  \A c \in Users, t \in Times : \A r \in UpdateResultsOf(c, t) :
    \A k \in DOMAIN AppendedBy(r, c) :
      Range(AppendedBy(r, c)[k].cardIds)
        \subseteq
          IF AppendedBy(r, c)[k].action = "deleteCard"
          THEN IdsOf(getAllCardsForUserInternal(State, c))
          ELSE IdsOf(getAllCardsForUserInternal(r.st, c))

\* =================================================================== C29
\* C29: in every reachable state, for every user and every card id, at most
\* one addCard entry of the user's history names the id.
C29_OneAddCardEntryPerId ==
  \A u \in DOMAIN changeHistory : \A id \in CardIds :
    Cardinality({k \in DOMAIN changeHistory[u] :
                   /\ changeHistory[u][k].action = "addCard"
                   /\ id \in Range(changeHistory[u][k].cardIds)}) <= 1

\* =================================================================== C30
\* C30: the trade flow is all-or-nothing: when it has ended with a rejected
\* addCard or a rejected recordTradeTransaction, no card the flow created is
\* in the collection of its caller.
C30_TradeFlowAllOrNothing ==
  flow.pc = "failed" =>
    Range(flow.newCardIds)
      \cap IdsOf(getAllCardsForUserInternal(State, flow.caller)) = {}

====
